---- MODULE Spec2Model ----
(***************************************************************************)
(* Split-Payment: the Splitter contract (contracts/Splitter.sol), the      *)
(* share validation of SplitFactory.createSplitter and the off-chain       *)
(* percentage validation, modelled as state machines.                      *)
(*                                                                         *)
(* A contract call is one atomic action: a require that fails reverts the  *)
(* whole call, so the ledger, the storage and the event log of the call    *)
(* are those of the state before it.  The ERC-20 token is an external      *)
(* contract: each of its calls either moves the tokens and returns true,   *)
(* returns false without moving anything, or reverts.                      *)
(***************************************************************************)
EXTENDS Integers, Sequences, FiniteSets, TLC

\* ---------------------------------------------------------------- bounds
Supply == 2
MaxTotal == 3
MaxCalcAmount == 100

\* ------------------------------------------------------------- constants
BASIS_POINTS == 10000

Users == {"u1", "u2", "u3"}
SplitterAddr == "splitter"
TokenAddr == "token"
NoAddr == "0x0"
Addrs == Users \cup {SplitterAddr}
\* the accounts offered to the constructor as _owner
Owners == {"u1", "u2"}

\* argument lists offered to the constructor and to updateShares
ShareLists ==
  { <<>>, <<10000>>, <<9999>>, <<7000, 3000>>, <<1, 9999>>, <<0, 10000>>,
    <<3333, 3333, 3334>>, <<3334, 3333, 3333>> }

RecipLists ==
  { <<>>, <<"u2">>, <<"u2", "u3">>, <<"u3", "u2">>, <<"u1", "u2", "u3">> }

\* what the token does in one transaction: its call number `at' (0 is the
\* transferFrom, k the transfer to the k-th recipient) fails in mode `mode';
\* at = -1 is a token that fails only for lack of balance
Behaviours ==
  {[at |-> -1, mode |-> "ok"]} \cup
  {[at |-> k, mode |-> m] : k \in 0..3, m \in {"false", "revert"}}
Cooperative == [at |-> -1, mode |-> "ok"]

VARIABLES
  deployed,          \* the Splitter exists
  recipients,        \* address[] recipients
  shares,            \* uint256[] shares
  token,             \* address token
  owner,             \* address owner
  active,            \* bool active
  totalDistributed,  \* uint256 totalDistributed
  bal,               \* the token's ledger: balanceOf
  events,            \* events emitted by the last call
  xfers,             \* token movements made by the last call
  last,              \* the last call: operation, msg.sender, amount, outcome
  sumDistributed,    \* history: sum of the amounts of successful distributes
  vIn,               \* the argument lists, or the form, submitted
  vOut,              \* the verdict of the off-chain validation
  allSplitters,      \* SplitFactory: address[] allSplitters
  userSplitters,     \* SplitFactory: mapping(address => address[])
  frames,            \* the distribute calls in flight, innermost last
  dbSplit,           \* the Split document of the database
  isRunning,         \* AutoDistributeCron.isRunning
  cycles,            \* the calls of runDistributionCycle made so far
  splitDocs,         \* the Split documents the cron job works on
  apiUsers,          \* the User documents: their apiKeys arrays
  now,               \* the server's clock
  accepted,          \* history: the signed messages authenticateWallet accepted
  requests,          \* rateLimiter: the Map from ip to the times it admitted
  served,            \* history: the requests the rate limiter has answered
  timers,            \* rateLimiter: the cleanups scheduled with setTimeout
  payments,          \* the Payment documents of the database
  splitters,         \* the Splitter contracts the factory has deployed
  balances,          \* Treasury: mapping(address => uint256) balances
  users              \* the User documents: the nonce of each wallet address

\* the state of the backend services
services == <<apiUsers, now, accepted, requests, served, timers, payments,
              splitters, balances, users>>
cron == <<isRunning, cycles, splitDocs>>
backend == <<cron, services>>

vars == <<deployed, recipients, shares, token, owner, active, totalDistributed,
          bal, events, xfers, last, sumDistributed, vIn, vOut, allSplitters, userSplitters,
                 frames, dbSplit, backend>>

\* the state of the contracts and the token
chain_noV == <<deployed, recipients, shares, token, owner, active,
               totalDistributed, bal, events, xfers, last, sumDistributed,
               allSplitters, userSplitters, frames, dbSplit>>

\* the state of the contracts, the token and the split routes
chain == <<deployed, recipients, shares, token, owner, active, totalDistributed,
           bal, events, xfers, last, sumDistributed, vIn, vOut, allSplitters,
           userSplitters, frames, dbSplit>>

storage == <<deployed, recipients, shares, token, owner, active, totalDistributed>>
config == <<recipients, shares>>

\* --------------------------------------------------------------- helpers
RECURSIVE SumSeq(_)
SumSeq(s) == IF s = <<>> THEN 0 ELSE s[1] + SumSeq(Tail(s))

\* fault: the number of the token call that was made to fail (-1: none)
Call(op, sender, amount, err) ==
  [op |-> op, sender |-> sender, amount |-> amount, err |-> err, fault |-> -1]

Ev(name, who, amount) == [name |-> name, who |-> who, amount |-> amount]
Xfer(from, to, amount) == [from |-> from, to |-> to, amount |-> amount]

\* ------------------------------------------------------------- the token
Move(b, from, to, amt) == [b EXCEPT ![from] = @ - amt, ![to] = @ + amt]

\* one call of IERC20.transfer / transferFrom moving amt from `from' to `to'
TokenCall(b, from, to, amt, beh, k) ==
  LET o == IF beh.at = k THEN beh.mode
           ELSE IF b[from] >= amt THEN "ok" ELSE "revert"
  IN [outcome |-> o, bal |-> IF o = "ok" THEN Move(b, from, to, amt) ELSE b]

\* require(paymentToken.transfer(...), "...")
TransferSucceeded_ignored(outcome) == outcome # "revert"
TransferSucceeded(outcome) == outcome = "ok"

\* ------------------------------------------------------------ validation
\* Splitter.constructor
ConstructorRequire_nozero(_recipients, _shares) ==
  IF Len(_recipients) # Len(_shares) THEN "Arrays length mismatch"
  ELSE IF ~(Len(_recipients) > 0) THEN "No recipients"
  ELSE IF SumSeq(_shares) # BASIS_POINTS THEN "Shares must sum to 10000"
  ELSE "ok"
ConstructorRequire(_recipients, _shares) ==
  IF Len(_recipients) # Len(_shares) THEN "Arrays length mismatch"
  ELSE IF ~(Len(_recipients) > 0) THEN "No recipients"
  ELSE IF \E i \in 1..Len(_shares) : ~(_shares[i] > 0) THEN "Share cannot be zero"
  ELSE IF SumSeq(_shares) # BASIS_POINTS THEN "Shares must sum to 10000"
  ELSE "ok"

\* Splitter.updateShares
UpdateSharesRequire_nosum(newRecipients, newShares) ==
  IF Len(newRecipients) # Len(newShares) THEN "Arrays length mismatch"
  ELSE IF ~(Len(newRecipients) > 0) THEN "No recipients"
  ELSE IF \E i \in 1..Len(newShares) : ~(newShares[i] > 0) THEN "Share cannot be zero"
  ELSE "ok"
UpdateSharesRequire_nolength(newRecipients, newShares) ==
  IF ~(Len(newRecipients) > 0) THEN "No recipients"
  ELSE IF \E i \in 1..Len(newShares) : ~(newShares[i] > 0) THEN "Share cannot be zero"
  ELSE IF SumSeq(newShares) # BASIS_POINTS THEN "Shares must sum to 10000"
  ELSE "ok"
UpdateSharesRequire(newRecipients, newShares) ==
  IF Len(newRecipients) # Len(newShares) THEN "Arrays length mismatch"
  ELSE IF ~(Len(newRecipients) > 0) THEN "No recipients"
  ELSE IF \E i \in 1..Len(newShares) : ~(newShares[i] > 0) THEN "Share cannot be zero"
  ELSE IF SumSeq(newShares) # BASIS_POINTS THEN "Shares must sum to 10000"
  ELSE "ok"

\* modifier onlyOwner
OnlyOwner_anyone(sender) == TRUE
OnlyOwner(sender) == sender = owner

\* ------------------------------------------------------------ distribute
\* the two requires at the head of distribute
DistributeRequire_noactive(amount) ==
  IF ~(amount > 0) THEN "Amount must be greater than 0" ELSE "ok"
DistributeRequire_nozero(amount) ==
  IF ~active THEN "Splitter is not active" ELSE "ok"
DistributeRequire(amount) ==
  IF ~active THEN "Splitter is not active"
  ELSE IF ~(amount > 0) THEN "Amount must be greater than 0"
  ELSE "ok"

\* the payout of the i-th recipient (1-based), given the running remainder
ShareAmount_proportional(amount, i, remainingAmount) ==
  (amount * shares[i]) \div BASIS_POINTS
ShareAmount_ceil(amount, i, remainingAmount) ==
  IF i = Len(recipients) THEN remainingAmount
  ELSE (amount * shares[i] + BASIS_POINTS - 1) \div BASIS_POINTS
ShareAmount_first(amount, i, remainingAmount) ==
  IF i = 1
  THEN amount - SumSeq([j \in 1..(Len(shares) - 1) |->
                          (amount * shares[j + 1]) \div BASIS_POINTS])
  ELSE (amount * shares[i]) \div BASIS_POINTS
ShareAmount_nearest(amount, i, remainingAmount) ==
  IF i = Len(recipients) THEN remainingAmount
  ELSE (amount * shares[i] + 5000) \div BASIS_POINTS
ShareAmount(amount, i, remainingAmount) ==
  IF i = Len(recipients) THEN remainingAmount
  ELSE (amount * shares[i]) \div BASIS_POINTS

\* a reverted call: nothing of it stays
Reverted(err) ==
  [err |-> err, bal |-> bal, events |-> <<>>, xfers |-> <<>>,
   totalDistributed |-> totalDistributed]

\* totalDistributed += amount
NewTotalDistributed_assign(amount) == amount
NewTotalDistributed(amount) == totalDistributed + amount

\* emit Distributed(recipients[i], shareAmount)
EmitDistributed_skipzero(evs, i, shareAmount) ==
  IF shareAmount = 0 THEN evs
  ELSE Append(evs, Ev("Distributed", recipients[i], shareAmount))
EmitDistributed(evs, i, shareAmount) ==
  Append(evs, Ev("Distributed", recipients[i], shareAmount))

\* the loop over the recipients, from the i-th on
RECURSIVE DistributeLoop(_, _, _, _)
DistributeLoop(i, amount, st, beh) ==
  IF i > Len(recipients) THEN st
  ELSE
    LET shareAmount == ShareAmount(amount, i, st.remainingAmount)
        rem == IF i = Len(recipients) THEN st.remainingAmount
               ELSE st.remainingAmount - shareAmount
        call == TokenCall(st.bal, SplitterAddr, recipients[i], shareAmount, beh, i)
    IN IF call.outcome = "revert" THEN [st EXCEPT !.err = "token reverted"]
       ELSE IF ~TransferSucceeded(call.outcome)
         THEN [st EXCEPT !.err = "Transfer to recipient failed"]
       ELSE DistributeLoop(i + 1, amount,
              [err |-> "ok",
               bal |-> call.bal,
               remainingAmount |-> rem,
               events |-> EmitDistributed(st.events, i, shareAmount),
               xfers |-> IF call.outcome = "ok"
                         THEN Append(st.xfers, Xfer(SplitterAddr, recipients[i], shareAmount))
                         ELSE st.xfers],
              beh)

\* Splitter.distribute(amount) called by sender: the state it leaves
DistributeCall(sender, amount, beh) ==
  LET pre == DistributeRequire(amount) IN
  IF pre # "ok" THEN Reverted(pre)
  ELSE
    LET pull == TokenCall(bal, sender, SplitterAddr, amount, beh, 0) IN
    IF pull.outcome = "revert" THEN Reverted("token reverted")
    ELSE IF ~TransferSucceeded(pull.outcome) THEN Reverted("Transfer failed")
    ELSE
      LET st == DistributeLoop(1, amount,
                  [err |-> "ok",
                   bal |-> pull.bal,
                   remainingAmount |-> amount,
                   events |-> <<Ev("PaymentReceived", sender, amount)>>,
                   xfers |-> IF pull.outcome = "ok"
                             THEN <<Xfer(sender, SplitterAddr, amount)>>
                             ELSE <<>>],
                  beh)
      IN IF st.err # "ok" THEN Reverted(st.err)
         ELSE [err |-> "ok", bal |-> st.bal, events |-> st.events,
               xfers |-> st.xfers,
               totalDistributed |-> NewTotalDistributed(amount)]

DistributeOp(sender, amount, beh) ==
  /\ deployed
  /\ LET r == DistributeCall(sender, amount, beh) IN
       /\ bal' = r.bal
       /\ totalDistributed' = r.totalDistributed
       /\ events' = r.events
       /\ xfers' = r.xfers
       /\ last' = [Call("distribute", sender, amount, r.err) EXCEPT !.fault = beh.at]
       /\ sumDistributed' = IF r.err = "ok" THEN sumDistributed + amount
                            ELSE sumDistributed
  /\ UNCHANGED <<deployed, recipients, shares, token, owner, active, vIn, vOut, allSplitters, userSplitters,
                 frames, dbSplit, backend>>

Distribute(sender, amount, beh) ==
  /\ totalDistributed + amount <= MaxTotal
  /\ beh.at <= Len(recipients)
  /\ DistributeOp(sender, amount, beh)

\* ----------------------------------------------------- other operations
Construct_inactive(_recipients, _shares, _owner) ==
  /\ ~deployed
  /\ LET err == ConstructorRequire(_recipients, _shares) IN
       /\ last' = Call("constructor", _owner, 0, err)
       /\ IF err = "ok"
          THEN /\ deployed' = TRUE
               /\ recipients' = _recipients
               /\ shares' = _shares
               /\ token' = TokenAddr
               /\ owner' = _owner
               /\ active' = FALSE
               /\ totalDistributed' = 0
          ELSE UNCHANGED storage
  /\ events' = <<>>
  /\ xfers' = <<>>
  /\ UNCHANGED <<bal, sumDistributed, vIn, vOut, allSplitters, userSplitters,
                 frames, dbSplit, backend>>
Construct(_recipients, _shares, _owner) ==
  /\ ~deployed
  /\ LET err == ConstructorRequire(_recipients, _shares) IN
       /\ last' = Call("constructor", _owner, 0, err)
       /\ IF err = "ok"
          THEN /\ deployed' = TRUE
               /\ recipients' = _recipients
               /\ shares' = _shares
               /\ token' = TokenAddr
               /\ owner' = _owner
               /\ active' = TRUE
               /\ totalDistributed' = 0
          ELSE UNCHANGED storage
  /\ events' = <<>>
  /\ xfers' = <<>>
  /\ UNCHANGED <<bal, sumDistributed, vIn, vOut, allSplitters, userSplitters,
                 frames, dbSplit, backend>>

UpdateShares_keepRecipients(sender, newRecipients, newShares) ==
  /\ deployed
  /\ LET err == IF ~OnlyOwner(sender) THEN "Only owner"
                ELSE UpdateSharesRequire(newRecipients, newShares) IN
       /\ last' = Call("updateShares", sender, 0, err)
       /\ IF err = "ok"
          THEN /\ recipients' = recipients
               /\ shares' = newShares
               /\ events' = <<Ev("SharesUpdated", sender, 0)>>
          ELSE /\ UNCHANGED config
               /\ events' = <<>>
  /\ xfers' = <<>>
  /\ UNCHANGED <<deployed, token, owner, active, totalDistributed, bal,
                 sumDistributed, vIn, vOut, allSplitters, userSplitters,
                 frames, dbSplit, backend>>
UpdateShares(sender, newRecipients, newShares) ==
  /\ deployed
  /\ LET err == IF ~OnlyOwner(sender) THEN "Only owner"
                ELSE UpdateSharesRequire(newRecipients, newShares) IN
       /\ last' = Call("updateShares", sender, 0, err)
       /\ IF err = "ok"
          THEN /\ recipients' = newRecipients
               /\ shares' = newShares
               /\ events' = <<Ev("SharesUpdated", sender, 0)>>
          ELSE /\ UNCHANGED config
               /\ events' = <<>>
  /\ xfers' = <<>>
  /\ UNCHANGED <<deployed, token, owner, active, totalDistributed, bal,
                 sumDistributed, vIn, vOut, allSplitters, userSplitters,
                 frames, dbSplit, backend>>

\* Splitter.emergencyWithdraw called by sender: the state it leaves
EmergencyWithdrawCall_noinactive(sender, beh) ==
  IF ~OnlyOwner(sender) THEN Reverted("Only owner")
  ELSE
    LET balance == bal[SplitterAddr] IN
    IF balance > 0
    THEN LET call == TokenCall(bal, SplitterAddr, owner, balance, beh, 0) IN
         IF call.outcome = "revert" THEN Reverted("token reverted")
         ELSE IF ~TransferSucceeded(call.outcome)
           THEN Reverted("Emergency withdrawal failed")
         ELSE [err |-> "ok", bal |-> call.bal,
               events |-> <<Ev("EmergencyWithdrawn", owner, balance)>>,
               xfers |-> IF call.outcome = "ok"
                         THEN <<Xfer(SplitterAddr, owner, balance)>> ELSE <<>>,
               totalDistributed |-> totalDistributed]
    ELSE [err |-> "ok", bal |-> bal, events |-> <<>>, xfers |-> <<>>,
          totalDistributed |-> totalDistributed]
EmergencyWithdrawCall(sender, beh) ==
  IF ~OnlyOwner(sender) THEN Reverted("Only owner")
  ELSE IF ~(~active) THEN Reverted("Must deactivate first")
  ELSE
    LET balance == bal[SplitterAddr] IN
    IF balance > 0
    THEN LET call == TokenCall(bal, SplitterAddr, owner, balance, beh, 0) IN
         IF call.outcome = "revert" THEN Reverted("token reverted")
         ELSE IF ~TransferSucceeded(call.outcome)
           THEN Reverted("Emergency withdrawal failed")
         ELSE [err |-> "ok", bal |-> call.bal,
               events |-> <<Ev("EmergencyWithdrawn", owner, balance)>>,
               xfers |-> IF call.outcome = "ok"
                         THEN <<Xfer(SplitterAddr, owner, balance)>> ELSE <<>>,
               totalDistributed |-> totalDistributed]
    ELSE [err |-> "ok", bal |-> bal, events |-> <<>>, xfers |-> <<>>,
          totalDistributed |-> totalDistributed]

EmergencyWithdraw(sender, beh) ==
  /\ deployed
  /\ beh.at <= 0
  /\ LET r == EmergencyWithdrawCall(sender, beh) IN
       /\ bal' = r.bal
       /\ events' = r.events
       /\ xfers' = r.xfers
       /\ last' = [Call("emergencyWithdraw", sender, 0, r.err) EXCEPT !.fault = beh.at]
  /\ UNCHANGED <<storage, sumDistributed, vIn, vOut, allSplitters, userSplitters,
                 frames, dbSplit, backend>>

Deactivate_clears(sender) ==
  /\ deployed
  /\ IF OnlyOwner(sender)
     THEN /\ active' = FALSE
          /\ recipients' = <<>>
          /\ shares' = <<>>
          /\ last' = Call("deactivate", sender, 0, "ok")
     ELSE /\ UNCHANGED <<active, recipients, shares>>
          /\ last' = Call("deactivate", sender, 0, "Only owner")
  /\ events' = <<>>
  /\ xfers' = <<>>
  /\ UNCHANGED <<deployed, token, owner, totalDistributed,
                 bal, sumDistributed, vIn, vOut, allSplitters, userSplitters,
                 frames, dbSplit, backend>>
Deactivate(sender) ==
  /\ deployed
  /\ IF OnlyOwner(sender)
     THEN /\ active' = FALSE
          /\ last' = Call("deactivate", sender, 0, "ok")
     ELSE /\ UNCHANGED active
          /\ last' = Call("deactivate", sender, 0, "Only owner")
  /\ events' = <<>>
  /\ xfers' = <<>>
  /\ UNCHANGED <<deployed, recipients, shares, token, owner, totalDistributed,
                 bal, sumDistributed, vIn, vOut, allSplitters, userSplitters,
                 frames, dbSplit, backend>>

Activate(sender) ==
  /\ deployed
  /\ IF OnlyOwner(sender)
     THEN /\ active' = TRUE
          /\ last' = Call("activate", sender, 0, "ok")
     ELSE /\ UNCHANGED active
          /\ last' = Call("activate", sender, 0, "Only owner")
  /\ events' = <<>>
  /\ xfers' = <<>>
  /\ UNCHANGED <<deployed, recipients, shares, token, owner, totalDistributed,
                 bal, sumDistributed, vIn, vOut, allSplitters, userSplitters,
                 frames, dbSplit, backend>>

\* Splitter.getConfig
GetConfig ==
  [recipients |-> recipients, shares |-> shares, token |-> token,
   owner |-> owner, active |-> active]

\* Splitter.getTotalDistributed
GetTotalDistributed == totalDistributed

\* Splitter.getBalance: the token's balanceOf(address(this))
GetBalance == bal[SplitterAddr]

ViewFunctions == {"getConfig", "getTotalDistributed", "getBalance"}

\* a call of one of the view functions: it returns the value of the operator
\* above and writes nothing
View(sender, fn) ==
  /\ deployed
  /\ last' = Call(fn, sender, 0, "ok")
  /\ events' = <<>>
  /\ xfers' = <<>>
  /\ UNCHANGED <<storage, bal, sumDistributed, vIn, vOut, allSplitters,
                 userSplitters, frames, dbSplit, backend>>

\* a holder moves its own tokens, to another holder or to the Splitter
TokenTransfer(from, to, amt) ==
  /\ bal[from] >= amt
  /\ from # to
  /\ bal' = Move(bal, from, to, amt)
  /\ last' = Call("tokenTransfer", from, amt, "ok")
  /\ events' = <<>>
  /\ xfers' = <<Xfer(from, to, amt)>>
  /\ UNCHANGED <<storage, sumDistributed, vIn, vOut, allSplitters, userSplitters,
                 frames, dbSplit, backend>>

IPs == {"ip1", "ip2"}
\* Date.now() when the server starts, in minutes
Epoch == 10
Tokens == {TokenAddr}

\* the services before their first request, the factory and the Treasury
\* after construction
ServicesInit ==
  /\ apiUsers = [u \in Users |-> <<>>]
  /\ now = Epoch
  /\ accepted = {}
  /\ requests = [ip \in IPs |-> <<>>]
  /\ served = <<>>
  /\ timers = {}
  /\ payments = <<>>
  /\ splitters = <<>>
  /\ balances = [t \in Tokens |-> 0]
  /\ users = [a \in Users |-> "none"]

\* the backend services before their first request or tick
BackendInit ==
  /\ isRunning = FALSE
  /\ cycles = <<>>
  /\ splitDocs = <<>>
  /\ ServicesInit

\* --------------------------------------------------------- specification
Idle == [op |-> "none"]
\* no Split document
NoSplit == [owner |-> NoAddr, recipients |-> <<>>]

Init ==
  /\ deployed = FALSE
  /\ recipients = <<>>
  /\ shares = <<>>
  /\ token = NoAddr
  /\ owner = NoAddr
  /\ active = FALSE
  /\ totalDistributed = 0
  /\ bal = [a \in Addrs |-> IF a = "u1" THEN Supply ELSE 0]
  /\ events = <<>>
  /\ xfers = <<>>
  /\ last = Call("none", NoAddr, 0, "ok")
  /\ sumDistributed = 0
  /\ vIn = Idle
  /\ vOut = Idle
  /\ allSplitters = <<>>
  /\ userSplitters = [u \in Users |-> <<>>]
  /\ frames = <<>>
  /\ dbSplit = NoSplit
  /\ BackendInit

\* the argument pairs of updateShares: the lists of equal length, and one
\* pair of different lengths
UpdateArgs ==
  { c \in RecipLists \X ShareLists :
      Len(c[1]) = Len(c[2]) \/ c = << <<"u2">>, <<7000, 3000>> >> }

Next ==
  \/ \E r \in RecipLists, s \in ShareLists, o \in Owners : Construct(r, s, o)
  \/ \E u \in Users, a \in 0..Supply, b \in Behaviours : Distribute(u, a, b)
  \/ \E u \in Users, c \in UpdateArgs : UpdateShares(u, c[1], c[2])
  \/ \E u \in Users, b \in Behaviours : EmergencyWithdraw(u, b)
  \/ \E u \in Users : Deactivate(u)
  \/ \E u \in Users : Activate(u)
  \/ \E u \in Users, t \in Addrs, a \in 1..Supply : TokenTransfer(u, t, a)
  \/ \E u \in Users, f \in ViewFunctions : View(u, f)

Spec == Init /\ [][Next]_vars

\* ------------------------------------------------------------ the factory
\* the requires at the head of SplitFactory.createSplitter
CreateSplitterRequire(_recipients, _shares) ==
  IF Len(_recipients) # Len(_shares) THEN "Arrays length mismatch"
  ELSE IF ~(Len(_recipients) > 0) THEN "No recipients"
  ELSE IF SumSeq(_shares) # 10000 THEN "Shares must sum to 10000 (100%)"
  ELSE "ok"

\* SplitFactory.createSplitter called by sender; new Splitter(...) runs the
\* constructor, whose revert reverts the creation
CreateSplitterTx(sender, _recipients, _shares) ==
  /\ ~deployed
  /\ LET pre == CreateSplitterRequire(_recipients, _shares)
         err == IF pre # "ok" THEN pre
                ELSE ConstructorRequire(_recipients, _shares) IN
       /\ last' = Call("createSplitter", sender, 0, err)
       /\ IF err = "ok"
          THEN /\ deployed' = TRUE
               /\ recipients' = _recipients
               /\ shares' = _shares
               /\ token' = TokenAddr
               /\ owner' = sender
               /\ active' = TRUE
               /\ totalDistributed' = 0
               /\ allSplitters' = Append(allSplitters, SplitterAddr)
               /\ userSplitters' =
                    [userSplitters EXCEPT ![sender] = Append(@, SplitterAddr)]
               /\ events' = <<Ev("SplitterCreated", sender, 0)>>
          ELSE /\ UNCHANGED <<storage, allSplitters, userSplitters>>
               /\ events' = <<>>
  /\ xfers' = <<>>
  /\ UNCHANGED <<bal, sumDistributed>>

CreateSplitter(sender, _recipients, _shares) ==
  /\ CreateSplitterTx(sender, _recipients, _shares)
  /\ UNCHANGED <<vIn, vOut, frames, dbSplit, backend>>

\* ------------------------------------------- distribution, larger amounts
\* configurations the constructor accepts
CalcShareLists ==
  { s \in ShareLists : ConstructorRequire(s, s) = "ok" } \cup
  { <<5000, 5000>>, <<3000, 7000>>, <<1, 1, 9998>>, <<9998, 1, 1>>,
    <<2500, 2500, 2500, 2500>>, <<1, 1, 1, 9997>>, <<3333, 3334, 3333>> }

CalcRecipients(n) == SubSeq(<<"u2", "u3", "u1", "u2">>, 1, n)

\* the orders in which the recipients of n shares are stored
CalcRecipientOrders(n) ==
  {CalcRecipients(n)} \cup (IF n = 3 THEN {<<"u1", "u2", "u3">>} ELSE {})

InitCalc ==
  /\ deployed = TRUE
  /\ shares \in CalcShareLists
  /\ recipients \in CalcRecipientOrders(Len(shares))
  /\ token = TokenAddr
  /\ owner = "u1"
  /\ active = TRUE
  /\ totalDistributed = 0
  /\ \E a \in 1..MaxCalcAmount :
       bal = [x \in Addrs |-> IF x = "u1" THEN a ELSE 0]
  /\ events = <<>>
  /\ xfers = <<>>
  /\ last = Call("constructor", "u1", 0, "ok")
  /\ sumDistributed = 0
  /\ vIn = Idle
  /\ vOut = Idle
  /\ allSplitters = <<>>
  /\ userSplitters = [u \in Users |-> <<>>]
  /\ frames = <<>>
  /\ dbSplit = NoSplit
  /\ BackendInit

\* the payer distributes all it holds, once
NextCalc ==
  /\ last.op = "constructor"
  /\ DistributeOp("u1", bal["u1"], Cooperative)

SpecCalc == InitCalc /\ [][NextCalc]_vars

\* ------------------------------------------------- the three validations
ValidateShareLists ==
  ShareLists \cup
  { <<0>>, <<0, 5000>>, <<10001>>, <<5000, 5000>>, <<10000, 0>>,
    <<5000, 5001>>, <<3333, 3333, 3333>>,
    <<0, 0, 10000>>, <<5000, 2500, 2501>>, <<1, 1, 9998>> }

\* a Splitter already deployed, for updateShares; or none yet
InitValidate ==
  /\ deployed \in BOOLEAN
  /\ recipients = IF deployed THEN <<"u2", "u3">> ELSE <<>>
  /\ shares = IF deployed THEN <<7000, 3000>> ELSE <<>>
  /\ token = IF deployed THEN TokenAddr ELSE NoAddr
  /\ owner = IF deployed THEN "u1" ELSE NoAddr
  /\ active = deployed
  /\ totalDistributed = 0
  /\ bal = [a \in Addrs |-> IF a = "u1" THEN Supply ELSE 0]
  /\ events = <<>>
  /\ xfers = <<>>
  /\ last = Call("none", NoAddr, 0, "ok")
  /\ sumDistributed = 0
  /\ \E r \in RecipLists, s \in ValidateShareLists :
       vIn = [recipients |-> r, shares |-> s]
  /\ vOut = Idle
  /\ allSplitters = <<>>
  /\ userSplitters = [u \in Users |-> <<>>]
  /\ frames = <<>>
  /\ dbSplit = NoSplit
  /\ BackendInit

NextValidate ==
  \/ \E o \in Owners : Construct(vIn.recipients, vIn.shares, o)
  \/ \E u \in Owners : CreateSplitter(u, vIn.recipients, vIn.shares)
  \/ UpdateShares(owner, vIn.recipients, vIn.shares)

SpecValidate == InitValidate /\ [][NextValidate]_vars

\* ------------------------------------------------ off-chain validation
\* A percentage is held as a whole number of thousandths of a percent
\* (33.333% is 33333), so 100% is 100000 and the 0.01 tolerance is 10.
MaxForm == 3
FormAddrs == {"u1", "u2", "u3"}
PctValues == {0, 4, 33333, 33334, 50000, 99996, 100000}
FormEntries == {[address |-> a, percentage |-> p] : a \in FormAddrs, p \in PctValues}
FormLists == UNION {[1..n -> FormEntries] : n \in 0..MaxForm}

Abs(x) == IF x < 0 THEN -x ELSE x

\* Math.round(percentage * 100): thousandths of a percent to basis points,
\* halves rounded up
ToBasisPoints(percentage) == (percentage + 5) \div 10

\* CreateSplit.validateRecipients, from the i-th recipient on
RECURSIVE ValidateRecipientsFrom(_, _, _, _)
ValidateRecipientsFrom(recs, i, seenAddresses, totalPercentage) ==
  IF i > Len(recs)
  THEN IF Abs(totalPercentage - 100000) > 10
       THEN [valid |-> FALSE, error |-> "Percentages must sum to 100%"]
       ELSE [valid |-> TRUE, error |-> ""]
  ELSE IF recs[i].address \notin FormAddrs
    THEN [valid |-> FALSE, error |-> "Invalid Ethereum address"]
  ELSE IF recs[i].address \in seenAddresses
    THEN [valid |-> FALSE, error |-> "Duplicate recipient address"]
  ELSE IF recs[i].percentage <= 0 \/ recs[i].percentage > 100000
    THEN [valid |-> FALSE, error |-> "Invalid percentage"]
  ELSE ValidateRecipientsFrom(recs, i + 1,
         seenAddresses \cup {recs[i].address},
         totalPercentage + recs[i].percentage)

validateRecipients(recs) == ValidateRecipientsFrom(recs, 1, {}, 0)

\* validation middleware: validatePercentageSum
validatePercentageSum(recs) ==
  Abs(SumSeq([i \in 1..Len(recs) |-> recs[i].percentage]) - 100000) < 10

\* createSplitSchema of the split routes
createSplitSchema(recs) ==
  /\ Len(recs) >= 1
  /\ Len(recs) <= 20
  /\ \A i \in 1..Len(recs) :
       /\ recs[i].address \in FormAddrs
       /\ recs[i].percentage >= 10
       /\ recs[i].percentage <= 100000

FormAddresses(recs) == [i \in 1..Len(recs) |-> recs[i].address]
FormShares(recs) == [i \in 1..Len(recs) |-> ToBasisPoints(recs[i].percentage)]

Verdict(op, valid, error) == [op |-> op, valid |-> valid, error |-> error]

\* CreateSplit.createSplit of the connected account
FrontendCreateSplit(account) ==
  /\ vOut.op = "none"
  /\ LET validation == validateRecipients(vIn.recipients) IN
       IF ~validation.valid
       THEN /\ vOut' = Verdict("createSplit", FALSE, validation.error)
            /\ UNCHANGED <<storage, bal, events, xfers, last, sumDistributed,
                           allSplitters, userSplitters>>
       ELSE /\ vOut' = Verdict("createSplit", TRUE, "")
            /\ CreateSplitterTx(account, FormAddresses(vIn.recipients),
                                FormShares(vIn.recipients))
  /\ UNCHANGED <<vIn, frames, dbSplit, backend>>

\* POST /api/split/create; the factory is called from the server's wallet
ApiCreateSplit(wallet) ==
  /\ vOut.op = "none"
  /\ IF ~createSplitSchema(vIn.recipients)
     THEN /\ vOut' = Verdict("POST /api/split/create", FALSE, "Validation failed")
          /\ UNCHANGED <<storage, bal, events, xfers, last, sumDistributed,
                         allSplitters, userSplitters>>
     ELSE /\ vOut' = Verdict("POST /api/split/create", TRUE, "")
          /\ CreateSplitterTx(wallet, FormAddresses(vIn.recipients),
                              FormShares(vIn.recipients))
  /\ UNCHANGED <<vIn, frames, dbSplit, backend>>

InitOffchain ==
  /\ deployed = FALSE
  /\ recipients = <<>>
  /\ shares = <<>>
  /\ token = NoAddr
  /\ owner = NoAddr
  /\ active = FALSE
  /\ totalDistributed = 0
  /\ bal = [a \in Addrs |-> IF a = "u1" THEN Supply ELSE 0]
  /\ events = <<>>
  /\ xfers = <<>>
  /\ last = Call("none", NoAddr, 0, "ok")
  /\ sumDistributed = 0
  /\ \E f \in FormLists : vIn = [recipients |-> f]
  /\ vOut = Idle
  /\ allSplitters = <<>>
  /\ userSplitters = [u \in Users |-> <<>>]
  /\ frames = <<>>
  /\ dbSplit = NoSplit
  /\ BackendInit

NextOffchain ==
  \/ \E u \in Owners : FrontendCreateSplit(u)
  \/ ApiCreateSplit("u1")

SpecOffchain == InitOffchain /\ [][NextOffchain]_vars

\* ------------------------------------------------- updates of a Splitter
\* the configurations the Splitter was constructed with
UpdateStartShares == { <<7000, 3000>>, <<3333, 3333, 3334>> }

\* a Splitter of u1, and the arguments its updateShares calls will carry
InitUpdate ==
  /\ deployed = TRUE
  /\ shares \in UpdateStartShares
  /\ recipients = SubSeq(<<"u2", "u3", "u1">>, 1, Len(shares))
  /\ token = TokenAddr
  /\ owner = "u1"
  /\ active = TRUE
  /\ totalDistributed = 0
  /\ bal = [a \in Addrs |-> IF a = "u1" THEN Supply ELSE 0]
  /\ events = <<>>
  /\ xfers = <<>>
  /\ last = Call("constructor", "u1", 0, "ok")
  /\ sumDistributed = 0
  /\ \E r \in RecipLists, s \in ValidateShareLists :
       vIn = [recipients |-> r, shares |-> s]
  /\ vOut = Idle
  /\ allSplitters = <<>>
  /\ userSplitters = [u \in Users |-> <<>>]
  /\ frames = <<>>
  /\ dbSplit = NoSplit
  /\ BackendInit

NextUpdate ==
  \/ \E u \in Users : UpdateShares(u, vIn.recipients, vIn.shares)
  \/ \E u \in Users, a \in 0..Supply : Distribute(u, a, Cooperative)
  \/ \E u \in Users : Deactivate(u)
  \/ \E u \in Users : Activate(u)

SpecUpdate == InitUpdate /\ [][NextUpdate]_vars

\* --------------------------------------- distribute, one token call at a time
\* The Splitter hands control to the token at every transferFrom / transfer.
\* A token that notifies the paying or the paid party lets that party call the
\* Splitter again before the token call returns; frames is the call stack of
\* the distribute calls that have begun and not ended.
MaxDepth == 2

\* the configurations updateShares is called with
ReentrantConfigs ==
  { [recipients |-> <<"u1", "u2", "u3">>, shares |-> <<3333, 3333, 3334>>],
    [recipients |-> <<"u2", "u3">>, shares |-> <<7000, 3000>>],
    [recipients |-> <<"u3", "u2">>, shares |-> <<1, 9999>>],
    [recipients |-> <<"u2">>, shares |-> <<9999>>] }

Top == frames[Len(frames)]

\* who can call the Splitter now: anyone between transactions, the parties of
\* the token call in progress during one
Callers ==
  IF frames = <<>> THEN Users
  ELSE {Top.pending.from, Top.pending.to} \cap Users

\* the amounts of the distribute calls in progress
InFlight == SumSeq([k \in 1..Len(frames) |-> frames[k].amount])

\* what a revert of the call that begins now restores
Checkpoint ==
  [bal |-> bal, recipients |-> recipients, shares |-> shares,
   totalDistributed |-> totalDistributed]

\* distribute(amount) begins: the requires, then the call of transferFrom
DistBegin(sender, amount) ==
  /\ deployed
  /\ Len(frames) < MaxDepth
  /\ sender \in Callers
  /\ totalDistributed + InFlight + amount <= MaxTotal
  /\ DistributeRequire(amount) = "ok"
  /\ frames' = Append(frames,
       [sender |-> sender, amount |-> amount, i |-> 0,
        remainingAmount |-> amount,
        pending |-> [from |-> sender, to |-> SplitterAddr, amt |-> amount],
        snap |-> [recipients |-> recipients, shares |-> shares],
        entry |-> Checkpoint,
        paid |-> <<>>])
  /\ UNCHANGED <<storage, bal, events, xfers, last, sumDistributed, vIn, vOut,
                 allSplitters, userSplitters, dbSplit, backend>>

\* the remainder after the i-th payout
NextRemaining(f, i) ==
  IF i = Len(recipients) THEN f.remainingAmount
  ELSE f.remainingAmount - ShareAmount(f.amount, i, f.remainingAmount)

\* the token call of the innermost distribute returns true
TokenReturns ==
  frames # <<>> /\
  TokenCall(bal, Top.pending.from, Top.pending.to, Top.pending.amt,
            Cooperative, 0).outcome = "ok"

\* the token call in progress returns, and distribute runs on to its next
\* token call (the loop reads recipients and shares from storage)
DistStep ==
  /\ TokenReturns
  /\ LET f == Top
         i == f.i + 1
         paid == IF f.i = 0 THEN f.paid
                 ELSE Append(f.paid, Xfer(SplitterAddr, f.pending.to, f.pending.amt))
     IN /\ i <= Len(recipients)
        /\ NextRemaining(f, i) >= 0
        /\ bal' = Move(bal, f.pending.from, f.pending.to, f.pending.amt)
        /\ frames' = [frames EXCEPT ![Len(frames)] =
             [f EXCEPT !.i = i,
                       !.remainingAmount = NextRemaining(f, i),
                       !.pending = [from |-> SplitterAddr, to |-> recipients[i],
                                    amt |-> ShareAmount(f.amount, i, f.remainingAmount)],
                       !.paid = paid]]
  /\ UNCHANGED <<storage, events, xfers, last, sumDistributed, vIn, vOut,
                 allSplitters, userSplitters, dbSplit, backend>>

\* the token call in progress returns and the loop is over: distribute ends
DistEnd ==
  /\ TokenReturns
  /\ LET f == Top IN
       /\ f.i + 1 > Len(recipients)
       /\ bal' = Move(bal, f.pending.from, f.pending.to, f.pending.amt)
       /\ totalDistributed' = totalDistributed + f.amount
       /\ frames' = SubSeq(frames, 1, Len(frames) - 1)
       /\ last' = Call("distribute", f.sender, f.amount, "ok")
       /\ xfers' = Append(f.paid, Xfer(SplitterAddr, f.pending.to, f.pending.amt))
       /\ vOut' = [op |-> "distribute", snap |-> f.snap]
  /\ events' = <<>>
  /\ UNCHANGED <<deployed, recipients, shares, token, owner, active,
                 sumDistributed, vIn, allSplitters, userSplitters, dbSplit, backend>>

\* the token call in progress fails (balance too low), or the remainder
\* underflows: the innermost distribute reverts, nothing of it stays
DistRevert ==
  /\ frames # <<>>
  /\ LET f == Top IN
       /\ \/ ~TokenReturns
          \/ f.i + 1 <= Len(recipients) /\ NextRemaining(f, f.i + 1) < 0
       /\ bal' = f.entry.bal
       /\ recipients' = f.entry.recipients
       /\ shares' = f.entry.shares
       /\ totalDistributed' = f.entry.totalDistributed
       /\ frames' = SubSeq(frames, 1, Len(frames) - 1)
       /\ last' = Call("distribute", f.sender, f.amount, "reverted")
  /\ events' = <<>>
  /\ xfers' = <<>>
  /\ UNCHANGED <<deployed, token, owner, active, sumDistributed, vIn, vOut,
                 allSplitters, userSplitters, dbSplit, backend>>

\* updateShares, called between transactions or from inside a token call
ReentrantUpdateShares(sender, c) ==
  /\ deployed
  /\ sender \in Callers
  /\ OnlyOwner(sender)
  /\ UpdateSharesRequire(c.recipients, c.shares) = "ok"
  /\ recipients' = c.recipients
  /\ shares' = c.shares
  /\ last' = Call("updateShares", sender, 0, "ok")
  /\ events' = <<>>
  /\ xfers' = <<>>
  /\ UNCHANGED <<deployed, token, owner, active, totalDistributed, bal,
                 sumDistributed, vIn, vOut, allSplitters, userSplitters,
                 frames, dbSplit, backend>>

InitReentrant ==
  /\ deployed = TRUE
  /\ recipients = <<"u1", "u2", "u3">>
  /\ shares = <<3333, 3333, 3334>>
  /\ token = TokenAddr
  /\ owner = "u1"
  /\ active = TRUE
  /\ totalDistributed = 0
  /\ bal = [a \in Addrs |-> IF a = "u1" THEN Supply ELSE 0]
  /\ events = <<>>
  /\ xfers = <<>>
  /\ last = Call("constructor", "u1", 0, "ok")
  /\ sumDistributed = 0
  /\ vIn = Idle
  /\ vOut = Idle
  /\ allSplitters = <<>>
  /\ userSplitters = [u \in Users |-> <<>>]
  /\ frames = <<>>
  /\ dbSplit = NoSplit
  /\ BackendInit

NextReentrant ==
  \/ \E u \in Users, a \in 0..Supply : DistBegin(u, a)
  \/ DistStep
  \/ DistEnd
  \/ DistRevert
  \/ \E u \in Users, c \in ReentrantConfigs : ReentrantUpdateShares(u, c)

SpecReentrant == InitReentrant /\ [][NextReentrant]_vars

\* ------------------------------------------- the API's update of a split
\* updateSplitSchema of the split routes, for a body that has recipients
updateSplitSchema(recs) ==
  /\ Len(recs) >= 1
  /\ Len(recs) <= 20
  /\ \A i \in 1..Len(recs) :
       /\ recs[i].address \in FormAddrs
       /\ recs[i].percentage >= 10
       /\ recs[i].percentage <= 100000

\* updates.recipients of PUT /api/split/:address
UpdatedRecipients(recs) ==
  [i \in 1..Len(recs) |->
     [address |-> recs[i].address, percentage |-> recs[i].percentage,
      share |-> ToBasisPoints(recs[i].percentage)]]

\* Split.findByIdAndUpdate(split._id, updates, {new: true}): the fields of
\* updates are written as they are, schema validators do not run
findByIdAndUpdate(doc, updates) ==
  IF updates.hasRecipients THEN [doc EXCEPT !.recipients = updates.recipients]
  ELSE doc

\* PUT /api/split/:address sent by userAddress, with or without recipients
ApiUpdateSplit(userAddress, hasRecipients) ==
  /\ IF hasRecipients /\ ~updateSplitSchema(vIn.recipients)
     THEN /\ vOut' = Verdict("PUT /api/split/:address", FALSE, "Validation failed")
          /\ UNCHANGED dbSplit
     ELSE IF dbSplit.owner # userAddress
     THEN /\ vOut' = Verdict("PUT /api/split/:address", FALSE,
                             "Split contract not found or unauthorized")
          /\ UNCHANGED dbSplit
     ELSE /\ vOut' = Verdict("PUT /api/split/:address", TRUE,
                             "")
          /\ dbSplit' = findByIdAndUpdate(dbSplit,
               [hasRecipients |-> hasRecipients,
                recipients |-> UpdatedRecipients(vIn.recipients)])
  /\ UNCHANGED <<storage, bal, events, xfers, last, sumDistributed, vIn,
                 allSplitters, userSplitters, frames, backend>>

\* the document POST /api/split/create saved for the deployed Splitter
StoredSplit ==
  [owner |-> "u1",
   recipients |-> <<[address |-> "u2", percentage |-> 70000, share |-> 7000],
                    [address |-> "u3", percentage |-> 30000, share |-> 3000]>>]

InitApiUpdate ==
  /\ deployed = TRUE
  /\ recipients = <<"u2", "u3">>
  /\ shares = <<7000, 3000>>
  /\ token = TokenAddr
  /\ owner = "u1"
  /\ active = TRUE
  /\ totalDistributed = 0
  /\ bal = [a \in Addrs |-> IF a = "u1" THEN Supply ELSE 0]
  /\ events = <<>>
  /\ xfers = <<>>
  /\ last = Call("createSplitter", "u1", 0, "ok")
  /\ sumDistributed = 0
  /\ \E f \in FormLists : vIn = [recipients |-> f]
  /\ vOut = Idle
  /\ allSplitters = <<SplitterAddr>>
  /\ userSplitters = [u \in Users |-> IF u = "u1" THEN <<SplitterAddr>> ELSE <<>>]
  /\ frames = <<>>
  /\ dbSplit = StoredSplit
  /\ BackendInit

NextApiUpdate ==
  \E u \in Owners, b \in BOOLEAN : ApiUpdateSplit(u, b)

SpecApiUpdate == InitApiUpdate /\ [][NextApiUpdate]_vars

\* ------------------------------------------------ the auto-distribute job
MaxTicks == 3
NumSplits == 2

\* the wallet of the server (PRIVATE_KEY), the msg.sender of its transactions
Wallet == "u1"

\* distributionThreshold of the Split documents
Thresholds == {0, 2}

\* a Split document: its address is that of the Splitter, or of no contract
SplitDocs ==
  [contractAddress : {SplitterAddr, NoAddr}, active : {TRUE},
   autoDistribute : {TRUE}, distributionThreshold : Thresholds,
   due : {TRUE}, errorCount : {0}]

\* AutoDistributeCron.getEligibleSplits: active, autoDistribute, and the last
\* distribution more than an hour ago or never
RECURSIVE EligibleFrom(_)
EligibleFrom(k) ==
  IF k > Len(splitDocs) THEN <<>>
  ELSE IF splitDocs[k].active /\ splitDocs[k].autoDistribute /\ splitDocs[k].due
    THEN <<k>> \o EligibleFrom(k + 1)
  ELSE EligibleFrom(k + 1)

getEligibleSplits == EligibleFrom(1)

\* AutoDistributeCron.processSplitDistribution with ContractService.checkBalance
\* and distributeFunds: what it returns or throws, and the state the
\* distribute transaction leaves
processSplitDistribution(split) ==
  IF split.contractAddress # SplitterAddr \/ ~deployed
  THEN [outcome |-> "throws", amount |-> 0, tx |-> Reverted("Failed to check balance")]
  ELSE LET balance == GetBalance IN
    IF balance < split.distributionThreshold
    THEN [outcome |-> "below", amount |-> balance, tx |-> Reverted("none")]
    ELSE LET tx == DistributeCall(Wallet, balance, Cooperative) IN
      IF tx.err # "ok"
      THEN [outcome |-> "throws", amount |-> balance, tx |-> tx]
      ELSE [outcome |-> "ok", amount |-> balance, tx |-> tx]

\* AutoDistributeCron.markSplitAsProblematic
markSplitAsProblematic_keep(split) ==
  [split EXCEPT !.errorCount = @ + 1]
markSplitAsProblematic(split) ==
  [split EXCEPT !.autoDistribute = FALSE, !.errorCount = @ + 1]

\* runDistributionCycle is called, by the cron tick or by manualTrigger: up to
\* its first await
Tick_noguard(by) ==
  /\ Len(cycles) < MaxTicks
  /\ isRunning' = TRUE
  /\ cycles' = Append(cycles, [pc |-> "fetch", eligible |-> <<>>,
                               k |-> 1, processed |-> <<>>,
                               result |-> "none"])
  /\ UNCHANGED <<chain, splitDocs, services>>
Tick(by) ==
  /\ Len(cycles) < MaxTicks
  /\ IF isRunning
     THEN /\ cycles' = Append(cycles, [pc |-> "skipped",
                                       eligible |-> <<>>, k |-> 1,
                                       processed |-> <<>>, result |-> "none"])
          /\ UNCHANGED isRunning
     ELSE /\ isRunning' = TRUE
          /\ cycles' = Append(cycles, [pc |-> "fetch",
                                       eligible |-> <<>>, k |-> 1,
                                       processed |-> <<>>, result |-> "none"])
  /\ UNCHANGED <<chain, splitDocs, services>>

\* const eligibleSplits = await this.getEligibleSplits()
Fetch(c) ==
  /\ cycles[c].pc = "fetch"
  /\ cycles' = [cycles EXCEPT ![c].pc = "loop", ![c].eligible = getEligibleSplits]
  /\ UNCHANGED <<chain, isRunning, splitDocs, services>>

\* one iteration of the loop over eligibleSplits
ProcessSplit(c) ==
  /\ cycles[c].pc = "loop"
  /\ cycles[c].k <= Len(cycles[c].eligible)
  /\ LET id == cycles[c].eligible[cycles[c].k]
         r == processSplitDistribution(splitDocs[id])
     IN /\ r.outcome = "ok" => totalDistributed + r.amount <= MaxTotal
        /\ cycles' = [cycles EXCEPT ![c].k = @ + 1,
                                    ![c].processed = Append(@, id),
                                    ![c].result = r.outcome]
        /\ splitDocs' =
             [splitDocs EXCEPT ![id] =
                IF r.outcome = "throws" THEN markSplitAsProblematic(@)
                ELSE IF r.outcome = "ok" THEN [@ EXCEPT !.due = FALSE]
                ELSE @]
        /\ bal' = r.tx.bal
        /\ totalDistributed' = r.tx.totalDistributed
        /\ events' = r.tx.events
        /\ xfers' = r.tx.xfers
        /\ last' = IF r.outcome = "below" THEN last
                   ELSE Call("distribute", Wallet, r.amount, r.tx.err)
        /\ sumDistributed' = IF r.outcome = "ok" THEN sumDistributed + r.amount
                             ELSE sumDistributed
  /\ UNCHANGED <<deployed, recipients, shares, token, owner, active, vIn, vOut,
                 allSplitters, userSplitters, frames, dbSplit, isRunning, services>>

\* the loop is over, or the cycle threw: finally { this.isRunning = false }
CycleEnd(c, threw) ==
  /\ cycles[c].pc \in {"fetch", "loop"}
  /\ threw \/ (cycles[c].pc = "loop" /\ cycles[c].k > Len(cycles[c].eligible))
  /\ cycles' = [cycles EXCEPT ![c].pc = IF threw THEN "threw" ELSE "done"]
  /\ isRunning' = FALSE
  /\ UNCHANGED <<chain, splitDocs, services>>

\* an hour passes: every lastDistribution is more than an hour ago
HourPasses ==
  /\ \E k \in 1..Len(splitDocs) : ~splitDocs[k].due
  /\ splitDocs' = [k \in 1..Len(splitDocs) |-> [splitDocs[k] EXCEPT !.due = TRUE]]
  /\ UNCHANGED <<chain, isRunning, cycles, services>>

\* a payer sends tokens to the Splitter
PayToSplitter(from, amt) ==
  /\ bal[from] >= amt
  /\ bal' = Move(bal, from, SplitterAddr, amt)
  /\ last' = Call("tokenTransfer", from, amt, "ok")
  /\ events' = <<>>
  /\ xfers' = <<Xfer(from, SplitterAddr, amt)>>
  /\ UNCHANGED <<storage, sumDistributed, vIn, vOut, allSplitters,
                 userSplitters, frames, dbSplit, backend>>

InitCron ==
  /\ deployed = TRUE
  /\ recipients = <<"u2", "u3">>
  /\ shares = <<7000, 3000>>
  /\ token = TokenAddr
  /\ owner = "u2"
  /\ active = TRUE
  /\ totalDistributed = 0
  /\ bal = [a \in Addrs |-> IF a = Wallet THEN Supply ELSE 0]
  /\ events = <<>>
  /\ xfers = <<>>
  /\ last = Call("constructor", "u2", 0, "ok")
  /\ sumDistributed = 0
  /\ vIn = Idle
  /\ vOut = Idle
  /\ allSplitters = <<>>
  /\ userSplitters = [u \in Users |-> <<>>]
  /\ frames = <<>>
  /\ dbSplit = NoSplit
  /\ isRunning = FALSE
  /\ cycles = <<>>
  /\ splitDocs \in [1..NumSplits -> SplitDocs]
  /\ ServicesInit

NextCron ==
  \/ \E by \in {"cron", "manualTrigger"} : Tick(by)
  \/ \E c \in 1..Len(cycles) : Fetch(c)
  \/ \E c \in 1..Len(cycles) : ProcessSplit(c)
  \/ \E c \in 1..Len(cycles), threw \in BOOLEAN : CycleEnd(c, threw)
  \/ HourPasses
  \/ \E a \in 1..Supply : PayToSplitter(Wallet, a)

SpecCron == InitCron /\ [][NextCron]_vars

\* ------------------------------------------------------------- API keys
MaxKeys == 2

\* the keys crypto.randomBytes gives out
RawKeys == {"sk_1", "sk_2", "sk_3"}
\* crypto.createHash('sha256').update(apiKey).digest('hex')
Hash(apiKey) == <<"sha256", apiKey>>

PermissionSets == {{"read"}, {"read", "write"}}
Methods == {"GET", "POST"}
Paths == {"/api/split/user", "/api/payment/process"}

getRoutePermissions(path, method) ==
  LET defaultPerms == IF method = "GET" THEN {"read"} ELSE {"write"}
      routePerms == IF path = "/api/payment/process"
                    THEN {"write", "payment:process"} ELSE {}
  IN defaultPerms \cup routePerms

\* generateApiKey(userId, name, permissions)
GenerateApiKey(userId, apiKey, permissions) ==
  /\ Len(apiUsers[userId]) < MaxKeys
  /\ \A u \in Users : \A i \in 1..Len(apiUsers[u]) :
       apiUsers[u][i].keyHash # Hash(apiKey)
  /\ apiUsers' = [apiUsers EXCEPT ![userId] =
                    Append(@, [keyHash |-> Hash(apiKey),
                               permissions |-> permissions,
                               isActive |-> TRUE])]
  /\ vOut' = Idle
  /\ UNCHANGED <<storage, bal, events, xfers, last, sumDistributed, vIn,
                 allSplitters, userSplitters, frames, dbSplit, cron, now,
                 accepted, requests, served, timers, payments, splitters,
                 balances, users>>

\* user.deactivateApiKey(keyHash)
DeactivateApiKey(u, keyHash) ==
  /\ \E i \in 1..Len(apiUsers[u]) :
       apiUsers[u][i].keyHash = keyHash /\ apiUsers[u][i].isActive
  /\ LET i == CHOOSE j \in 1..Len(apiUsers[u]) : apiUsers[u][j].keyHash = keyHash
     IN apiUsers' = [apiUsers EXCEPT ![u][i].isActive = FALSE]
  /\ vOut' = Idle
  /\ UNCHANGED <<storage, bal, events, xfers, last, sumDistributed, vIn,
                 allSplitters, userSplitters, frames, dbSplit, cron, now,
                 accepted, requests, served, timers, payments, splitters,
                 balances, users>>

\* User.findOne({'apiKeys.keyHash': hashedKey, 'apiKeys.isActive': true}):
\* each condition is met by some element of the array, not necessarily the
\* same one
FindByApiKey(hashedKey) ==
  { u \in Users :
      /\ \E i \in 1..Len(apiUsers[u]) : apiUsers[u][i].keyHash = hashedKey
      /\ \E i \in 1..Len(apiUsers[u]) : apiUsers[u][i].isActive }

\* the verifyApiKey middleware on a request of `method' to `path'
VerifyApiKey(apiKey, path, method) ==
  LET hashedKey == Hash(apiKey)
      found == FindByApiKey(hashedKey)
      req == [op |-> "verifyApiKey", apiKey |-> apiKey, path |-> path,
              method |-> method]
  IN
  /\ vIn' = req
  /\ IF found = {}
     THEN vOut' = [op |-> "verifyApiKey", status |-> 403,
                   error |-> "Invalid API key", user |-> NoAddr]
     ELSE LET user == CHOOSE u \in found : TRUE
              apiKeyData == apiUsers[user][
                 CHOOSE i \in 1..Len(apiUsers[user]) :
                    apiUsers[user][i].keyHash = hashedKey]
              hasPermission ==
                 \A permission \in getRoutePermissions(path, method) :
                    permission \in apiKeyData.permissions
                    \/ "*" \in apiKeyData.permissions
          IN IF ~hasPermission
             THEN vOut' = [op |-> "verifyApiKey", status |-> 403,
                           error |-> "Insufficient permissions",
                           user |-> NoAddr]
             ELSE vOut' = [op |-> "verifyApiKey", status |-> 200,
                           error |-> "none", user |-> user]
  /\ UNCHANGED <<storage, bal, events, xfers, last, sumDistributed,
                 allSplitters, userSplitters, frames, dbSplit, backend>>

InitApiKey == Init

NextApiKey ==
  \/ \E u \in {"u1", "u2"}, k \in RawKeys, p \in PermissionSets :
        GenerateApiKey(u, k, p)
  \/ \E u \in Users, k \in RawKeys : DeactivateApiKey(u, Hash(k))
  \/ \E k \in RawKeys, p \in Paths, m \in Methods : VerifyApiKey(k, p, m)

SpecApiKey == InitApiKey /\ [][NextApiKey]_vars

\* ------------------------------------------------- wallet authentication
MaxClock == 7

\* const maxAge = 5 * 60 * 1000, in minutes
MaxAge == 5
\* process.env.AUTH_DOMAIN
AUTH_DOMAIN == "split-payments.example.com"
Nonces == {"n1", "n2"}

\* the messages a wallet signs: JSON with the fields the middleware reads
\* (timestamp 0: the message has no timestamp field) and the nonce the
\* server gave out
AuthMessages ==
  [timestamp : {0, Epoch, Epoch + 1},
   domain : {AUTH_DOMAIN, "other.example.com"},
   purpose : {"authentication", "payment"},
   nonce : {"n1"}]

\* the request body: message, claimed address, and the address that
\* ethers.verifyMessage recovers from the signature
AuthRequests == [message : AuthMessages, address : {"u1", "u2"}, signer : {"u1"}]

\* the checks of authenticateWallet after the signature format: the status
\* and error it answers, 200 when it calls next()
AuthCheck(body, clock) ==
  LET messageData == body.message
      timestamp == messageData.timestamp
  IN IF body.signer # body.address
     THEN [status |-> 401, error |-> "Signature does not match address"]
     ELSE IF timestamp = 0 \/ Abs(clock - timestamp) > MaxAge
     THEN [status |-> 401, error |-> "Signature expired"]
     ELSE IF messageData.domain # AUTH_DOMAIN
             \/ messageData.purpose # "authentication"
     THEN [status |-> 401, error |-> "Invalid authentication message"]
     ELSE [status |-> 200, error |-> "none"]

\* the authenticateWallet middleware; on success the user is found or
\* created and gets a new random nonce
AuthenticateWallet(body, newNonce) ==
  LET r == AuthCheck(body, now) IN
  /\ vIn' = [op |-> "authenticateWallet", body |-> body]
  /\ vOut' = [op |-> "authenticateWallet", status |-> r.status,
              error |-> r.error, at |-> now,
              replay |-> body \in accepted]
  /\ IF r.status = 200
     THEN /\ users' = [users EXCEPT ![body.address] = newNonce]
          /\ accepted' = accepted \cup {body}
     ELSE UNCHANGED <<users, accepted>>
  /\ UNCHANGED <<chain_noV, cron, apiUsers, now, requests, served, timers,
                 payments, splitters, balances>>

\* the server's clock advances by a minute
ClockTick ==
  /\ now < Epoch + MaxClock
  /\ now' = now + 1
  /\ UNCHANGED <<chain, cron, apiUsers, accepted, requests, served, timers,
                 payments, splitters, balances, users>>

InitAuth == Init

NextAuth ==
  \/ \E b \in AuthRequests, n \in Nonces : AuthenticateWallet(b, n)
  \/ ClockTick

SpecAuth == InitAuth /\ [][NextAuth]_vars

\* ------------------------------------------------------ the rate limiter
MaxRequests == 4

\* the options of rateLimiter, windowMs in minutes
windowMs == 3
max == 2

\* times.filter(time => time > t - windowMs)
Recent(times, t) == SelectSeq(times, LAMBDA time : time > t - windowMs)

\* one request from ip goes through the middleware
RateLimit_lenient(ip) ==
  LET windowStart == now - windowMs
      userRequests == SelectSeq(requests[ip], LAMBDA time : time > windowStart)
  IN
  /\ Len(served) < MaxRequests
  /\ IF Len(userRequests) > max
     THEN /\ served' = Append(served, [ip |-> ip, at |-> now, status |-> 429])
          /\ UNCHANGED <<requests, timers>>
     ELSE /\ requests' = [requests EXCEPT ![ip] = Append(userRequests, now)]
          /\ timers' = timers \cup {now + windowMs}
          /\ served' = Append(served, [ip |-> ip, at |-> now, status |-> 200])
  /\ UNCHANGED <<chain, cron, apiUsers, now, accepted, payments, splitters,
                 balances, users>>
RateLimit(ip) ==
  LET windowStart == now - windowMs
      userRequests == SelectSeq(requests[ip], LAMBDA time : time > windowStart)
  IN
  /\ Len(served) < MaxRequests
  /\ IF Len(userRequests) >= max
     THEN /\ served' = Append(served, [ip |-> ip, at |-> now, status |-> 429])
          /\ UNCHANGED <<requests, timers>>
     ELSE /\ requests' = [requests EXCEPT ![ip] = Append(userRequests, now)]
          /\ timers' = timers \cup {now + windowMs}
          /\ served' = Append(served, [ip |-> ip, at |-> now, status |-> 200])
  /\ UNCHANGED <<chain, cron, apiUsers, now, accepted, payments, splitters,
                 balances, users>>

\* a cleanup scheduled with setTimeout(..., windowMs) runs, at its time or
\* later
Cleanup(due) ==
  /\ due \in timers
  /\ now >= due
  /\ requests' = [ip \in IPs |-> Recent(requests[ip], now)]
  /\ timers' = timers \ {due}
  /\ UNCHANGED <<chain, cron, apiUsers, now, accepted, served, payments,
                 splitters, balances, users>>

InitRate == Init

NextRate ==
  \/ \E ip \in IPs : RateLimit(ip)
  \/ \E due \in timers : Cleanup(due)
  \/ ClockTick

SpecRate == InitRate /\ [][NextRate]_vars

\* ---------------------------------------------- POST /api/payment/process
MaxPayments == 2

\* a field of a document: absent (null, undefined) or holding a value
None == <<>>
Some(v) == <<v>>

\* the paths PaymentSchema marks required: true
PaymentRequired ==
  {"splitId", "contractAddress", "payerAddress", "amount", "amountWei",
   "token", "txHash"}

\* the validation Mongoose runs in save(): every required path holds a
\* value, and the unique index on txHash
PaymentValidate(doc, saved) ==
  /\ \A path \in PaymentRequired : doc[path] # None
  /\ \A i \in 1..Len(saved) : saved[i].txHash # doc.txHash

\* new Payment(doc).save(): the collection afterwards; a document that fails
\* validation is not written and save() throws
PaymentSave(doc, saved) ==
  IF PaymentValidate(doc, saved) THEN Append(saved, doc) ELSE saved

\* the Split document of the payment route
PaymentSplit ==
  [contractAddress |-> SplitterAddr, active |-> TRUE, autoDistribute |-> FALSE,
   distributionThreshold |-> 0, due |-> FALSE, errorCount |-> 0,
   token |-> TokenAddr, totalPayments |-> 0, totalAmount |-> 0]

\* request bodies; amount 0 stands for a body paymentSchema rejects
PaymentBodies ==
  [splitAddress : {SplitterAddr, NoAddr}, amount : 0..Supply,
   token : {TokenAddr, NoAddr}, payer : {"u3"}]

\* ethers.parseUnits(amount.toString(), decimals), the token having no
\* decimals
parseUnits(amount) == amount

\* the handler of POST /api/payment/process with its validateRequest
ProcessPayment(body, beh) ==
  LET found == { k \in 1..Len(splitDocs) :
                   /\ splitDocs[k].contractAddress = body.splitAddress
                   /\ splitDocs[k].active }
      answer(status, error, txHash) ==
        [op |-> "processPayment", status |-> status, error |-> error,
         txHash |-> txHash, before |-> Len(payments)]
  IN
  /\ Len(payments) < MaxPayments
  /\ beh.at <= Len(recipients)
  /\ vIn' = [op |-> "processPayment", body |-> body]
  /\ IF ~(body.amount > 0)
     THEN /\ vOut' = answer(400, "Validation failed", None)
          /\ UNCHANGED <<payments, splitDocs, bal, totalDistributed, events,
                         xfers, last, sumDistributed>>
     ELSE IF found = {}
     THEN /\ vOut' = answer(404, "Split contract not found or inactive", None)
          /\ UNCHANGED <<payments, splitDocs, bal, totalDistributed, events,
                         xfers, last, sumDistributed>>
     ELSE LET id == CHOOSE k \in found : \A j \in found : k <= j
              split == splitDocs[id]
              amountWei == parseUnits(body.amount)
              tx == DistributeCall(Wallet, amountWei, beh)
              txHash == Some(Len(payments) + 1)
          IN
          IF split.token # body.token
          THEN /\ vOut' = answer(400, "Token mismatch", None)
               /\ UNCHANGED <<payments, splitDocs, bal, totalDistributed,
                              events, xfers, last, sumDistributed>>
          ELSE
            /\ tx.err = "ok" => totalDistributed + amountWei <= MaxTotal
            /\ bal' = tx.bal
            /\ totalDistributed' = tx.totalDistributed
            /\ events' = tx.events
            /\ xfers' = tx.xfers
            /\ last' = [Call("distribute", Wallet, amountWei, tx.err)
                          EXCEPT !.fault = beh.at]
            /\ sumDistributed' = IF tx.err = "ok"
                                 THEN sumDistributed + amountWei
                                 ELSE sumDistributed
            /\ IF tx.err = "ok"
               THEN /\ payments' = PaymentSave(
                         [splitId |-> Some(id),
                          contractAddress |-> Some(body.splitAddress),
                          payerAddress |-> Some(body.payer),
                          amount |-> Some(body.amount),
                          amountWei |-> Some(amountWei),
                          token |-> Some(body.token),
                          txHash |-> txHash,
                          status |-> "completed",
                          error |-> None], payments)
                    /\ splitDocs' = [splitDocs EXCEPT
                                       ![id].totalPayments = @ + 1,
                                       ![id].totalAmount = @ + body.amount]
                    /\ vOut' = answer(200, "none", txHash)
               ELSE /\ payments' = PaymentSave(
                         [splitId |-> None,
                          contractAddress |-> Some(body.splitAddress),
                          payerAddress |-> Some(body.payer),
                          amount |-> Some(body.amount),
                          amountWei |-> None,
                          token |-> Some(body.token),
                          txHash |-> None,
                          status |-> "failed",
                          error |-> Some(tx.err)], payments)
                    /\ UNCHANGED splitDocs
                    /\ vOut' = answer(500, tx.err, None)
  /\ UNCHANGED <<deployed, recipients, shares, token, owner, active,
                 allSplitters, userSplitters, frames, dbSplit, isRunning,
                 cycles, apiUsers, now, accepted, requests, served, timers,
                 splitters, balances, users>>

InitPayment ==
  /\ deployed = TRUE
  /\ recipients = <<"u2", "u3">>
  /\ shares = <<7000, 3000>>
  /\ token = TokenAddr
  /\ owner = "u2"
  /\ active = TRUE
  /\ totalDistributed = 0
  /\ bal = [a \in Addrs |-> IF a = Wallet THEN Supply ELSE 0]
  /\ events = <<>>
  /\ xfers = <<>>
  /\ last = Call("constructor", "u2", 0, "ok")
  /\ sumDistributed = 0
  /\ vIn = Idle
  /\ vOut = Idle
  /\ allSplitters = <<>>
  /\ userSplitters = [u \in Users |-> <<>>]
  /\ frames = <<>>
  /\ dbSplit = NoSplit
  /\ isRunning = FALSE
  /\ cycles = <<>>
  /\ splitDocs = <<PaymentSplit>>
  /\ ServicesInit

NextPayment ==
  \/ \E b \in PaymentBodies, beh \in Behaviours : ProcessPayment(b, beh)
  \/ \E u \in Users : Deactivate(u)
  \/ \E u \in Users : Activate(u)

SpecPayment == InitPayment /\ [][NextPayment]_vars

\* ------------------------------------------ the factory's registry
MaxSplitters == 3

\* the address of the n-th contract deployed
NewAddress(n) == <<"splitter", n>>

\* argument pairs of createSplitter: two that pass, and one for each require
\* of the factory and of the constructor
FactoryArgs ==
  { << <<"u2", "u3">>, <<7000, 3000>> >>,
    << <<"u2">>, <<10000>> >>,
    << <<"u2">>, <<7000, 3000>> >>,
    << <<>>, <<>> >>,
    << <<"u2">>, <<9999>> >>,
    << <<"u2", "u3">>, <<0, 10000>> >> }

\* new Splitter(_recipients, _shares, _token, _owner): the contract deployed
NewSplitter(_recipients, _shares, _owner, by) ==
  [address |-> NewAddress(Len(splitters) + 1), recipients |-> _recipients,
   shares |-> _shares, token |-> TokenAddr, owner |-> _owner,
   active |-> TRUE, by |-> by]

\* SplitFactory.createSplitter(recipients, shares, token) called by sender
FactoryCreateSplitter_nouser(sender, _recipients, _shares) ==
  /\ LET pre == CreateSplitterRequire(_recipients, _shares)
         err == IF pre # "ok" THEN pre
                ELSE ConstructorRequire(_recipients, _shares)
         newSplitter == NewSplitter(_recipients, _shares, sender, "factory")
     IN /\ err = "ok" => Len(splitters) < MaxSplitters
        /\ last' = Call("createSplitter", sender, 0, err)
        /\ IF err = "ok"
           THEN /\ splitters' = Append(splitters, newSplitter)
                /\ allSplitters' = Append(allSplitters, newSplitter.address)
                /\ UNCHANGED userSplitters
                /\ events' = <<Ev("SplitterCreated", sender, 0)>>
           ELSE /\ UNCHANGED <<splitters, allSplitters, userSplitters>>
                /\ events' = <<>>
  /\ xfers' = <<>>
  /\ UNCHANGED <<storage, bal, sumDistributed, vIn, vOut, frames, dbSplit,
                 cron, apiUsers, now, accepted, requests, served, timers,
                 payments, balances, users>>
FactoryCreateSplitter(sender, _recipients, _shares) ==
  /\ LET pre == CreateSplitterRequire(_recipients, _shares)
         err == IF pre # "ok" THEN pre
                ELSE ConstructorRequire(_recipients, _shares)
         newSplitter == NewSplitter(_recipients, _shares, sender, "factory")
     IN /\ err = "ok" => Len(splitters) < MaxSplitters
        /\ last' = Call("createSplitter", sender, 0, err)
        /\ IF err = "ok"
           THEN /\ splitters' = Append(splitters, newSplitter)
                /\ allSplitters' = Append(allSplitters, newSplitter.address)
                /\ userSplitters' =
                     [userSplitters EXCEPT ![sender] =
                        Append(@, newSplitter.address)]
                /\ events' = <<Ev("SplitterCreated", sender, 0)>>
           ELSE /\ UNCHANGED <<splitters, allSplitters, userSplitters>>
                /\ events' = <<>>
  /\ xfers' = <<>>
  /\ UNCHANGED <<storage, bal, sumDistributed, vIn, vOut, frames, dbSplit,
                 cron, apiUsers, now, accepted, requests, served, timers,
                 payments, balances, users>>

\* a Splitter deployed by an account itself, not through the factory
DeploySplitter(sender, _recipients, _shares, _owner) ==
  /\ LET err == ConstructorRequire(_recipients, _shares) IN
       /\ err = "ok" => Len(splitters) < MaxSplitters
       /\ last' = Call("constructor", sender, 0, err)
       /\ IF err = "ok"
          THEN splitters' = Append(splitters,
                  NewSplitter(_recipients, _shares, _owner, sender))
          ELSE UNCHANGED splitters
  /\ events' = <<>>
  /\ xfers' = <<>>
  /\ UNCHANGED <<storage, bal, sumDistributed, vIn, vOut, allSplitters,
                 userSplitters, frames, dbSplit, cron, apiUsers, now,
                 accepted, requests, served, timers, payments, balances,
                 users>>

InitFactory == Init

NextFactory ==
  \/ \E u \in Users, c \in FactoryArgs : FactoryCreateSplitter(u, c[1], c[2])
  \/ \E u \in {"u1"}, c \in FactoryArgs, o \in Owners :
        DeploySplitter(u, c[1], c[2], o)

SpecFactory == InitFactory /\ [][NextFactory]_vars

\* ---------------------------------------------------------- the Treasury
MaxRecorded == 3

TreasuryAddr == "treasury"
\* constructor: owner = msg.sender
TreasuryOwner == "u2"

\* argument pairs of batchDistribute
BatchArgs ==
  { << <<"u3">>, <<1>> >>,
    << <<"u3", "u1">>, <<1, 1>> >>,
    << <<"u3">>, <<1, 1>> >>,
    << <<>>, <<>> >>,
    << <<"u3">>, <<MaxRecorded + 1>> >> }

\* Treasury.deposit(token, amount) called by sender: the return value of
\* transferFrom is not read
Deposit(sender, tkn, amount, beh) ==
  LET call == TokenCall(bal, sender, TreasuryAddr, amount, beh, 0) IN
  /\ call.outcome # "revert" => balances[tkn] + amount <= MaxRecorded
  /\ IF call.outcome = "revert"
     THEN /\ last' = [Call("deposit", sender, amount, "token reverted")
                        EXCEPT !.fault = beh.at]
          /\ events' = <<>>
          /\ xfers' = <<>>
          /\ UNCHANGED <<bal, balances>>
     ELSE /\ bal' = call.bal
          /\ balances' = [balances EXCEPT ![tkn] = @ + amount]
          /\ last' = [Call("deposit", sender, amount, "ok")
                        EXCEPT !.fault = beh.at]
          /\ events' = <<Ev("FundsDeposited", sender, amount)>>
          /\ xfers' = IF call.outcome = "ok"
                      THEN <<Xfer(sender, TreasuryAddr, amount)>> ELSE <<>>
  /\ UNCHANGED <<storage, sumDistributed, vIn, vOut, allSplitters,
                 userSplitters, frames, dbSplit, cron, apiUsers, now,
                 accepted, requests, served, timers, payments, splitters,
                 users>>

\* Treasury.withdraw(token, amount) called by sender
Withdraw(sender, tkn, amount, beh) ==
  LET call == TokenCall(bal, TreasuryAddr, TreasuryOwner, amount, beh, 1)
      err == IF sender # TreasuryOwner THEN "Only owner"
             ELSE IF ~(balances[tkn] >= amount) THEN "Insufficient balance"
             ELSE IF call.outcome = "revert" THEN "token reverted"
             ELSE "ok"
  IN
  /\ last' = [Call("withdraw", sender, amount, err) EXCEPT !.fault = beh.at]
  /\ IF err # "ok"
     THEN /\ events' = <<>>
          /\ xfers' = <<>>
          /\ UNCHANGED <<bal, balances>>
     ELSE /\ bal' = call.bal
          /\ balances' = [balances EXCEPT ![tkn] = @ - amount]
          /\ events' = <<Ev("FundsWithdrawn", TreasuryOwner, amount)>>
          /\ xfers' = IF call.outcome = "ok"
                      THEN <<Xfer(TreasuryAddr, TreasuryOwner, amount)>>
                      ELSE <<>>
  /\ UNCHANGED <<storage, sumDistributed, vIn, vOut, allSplitters,
                 userSplitters, frames, dbSplit, cron, apiUsers, now,
                 accepted, requests, served, timers, payments, splitters,
                 users>>

\* the transfer loop of batchDistribute from its i-th recipient on
RECURSIVE BatchLoop(_, _, _, _, _)
BatchLoop(i, _recipients, amounts, st, beh) ==
  IF i > Len(_recipients) \/ st.err # "ok" THEN st
  ELSE LET call == TokenCall(st.bal, TreasuryAddr, _recipients[i],
                             amounts[i], beh, i)
       IN BatchLoop(i + 1, _recipients, amounts,
            [err |-> IF call.outcome = "revert" THEN "token reverted"
                     ELSE "ok",
             bal |-> call.bal,
             xfers |-> IF call.outcome = "ok"
                       THEN Append(st.xfers,
                               Xfer(TreasuryAddr, _recipients[i], amounts[i]))
                       ELSE st.xfers],
            beh)

\* Treasury.batchDistribute(token, recipients, amounts) called by sender
BatchDistribute(sender, tkn, _recipients, amounts, beh) ==
  LET totalAmount == SumSeq(amounts)
      pre == IF sender # TreasuryOwner THEN "Only owner"
             ELSE IF Len(_recipients) # Len(amounts)
             THEN "Arrays length mismatch"
             ELSE IF ~(balances[tkn] > 0) THEN "No balance for token"
             ELSE IF ~(balances[tkn] >= totalAmount) THEN "Insufficient funds"
             ELSE "ok"
      st == IF pre # "ok" THEN [err |-> pre, bal |-> bal, xfers |-> <<>>]
            ELSE BatchLoop(1, _recipients, amounts,
                           [err |-> "ok", bal |-> bal, xfers |-> <<>>], beh)
  IN
  /\ beh.at # 0
  /\ last' = [Call("batchDistribute", sender, totalAmount, st.err)
                EXCEPT !.fault = beh.at]
  /\ IF st.err # "ok"
     THEN /\ events' = <<>>
          /\ xfers' = <<>>
          /\ UNCHANGED <<bal, balances>>
     ELSE /\ bal' = st.bal
          /\ balances' = [balances EXCEPT ![tkn] = @ - totalAmount]
          /\ events' = <<Ev("BatchDistribution", tkn, totalAmount)>>
          /\ xfers' = st.xfers
  /\ UNCHANGED <<storage, sumDistributed, vIn, vOut, allSplitters,
                 userSplitters, frames, dbSplit, cron, apiUsers, now,
                 accepted, requests, served, timers, payments, splitters,
                 users>>

InitTreasury ==
  /\ deployed = FALSE
  /\ recipients = <<>>
  /\ shares = <<>>
  /\ token = NoAddr
  /\ owner = NoAddr
  /\ active = FALSE
  /\ totalDistributed = 0
  /\ bal = [a \in Users \cup {TreasuryAddr} |-> IF a = "u1" THEN Supply ELSE 0]
  /\ events = <<>>
  /\ xfers = <<>>
  /\ last = Call("constructor", TreasuryOwner, 0, "ok")
  /\ sumDistributed = 0
  /\ vIn = Idle
  /\ vOut = Idle
  /\ allSplitters = <<>>
  /\ userSplitters = [u \in Users |-> <<>>]
  /\ frames = <<>>
  /\ dbSplit = NoSplit
  /\ BackendInit

NextTreasury ==
  \/ \E u \in {"u1", "u2"}, t \in Tokens, a \in 0..Supply,
        b \in {beh \in Behaviours : beh.at \in {-1, 0}} : Deposit(u, t, a, b)
  \/ \E u \in {"u1", "u2"}, t \in Tokens, a \in 0..Supply,
        b \in {beh \in Behaviours : beh.at \in {-1, 1}} : Withdraw(u, t, a, b)
  \/ \E u \in {"u1", "u2"}, t \in Tokens, c \in BatchArgs,
        b \in {beh \in Behaviours : beh.at \in {-1, 1, 2}} :
        BatchDistribute(u, t, c[1], c[2], b)

SpecTreasury == InitTreasury /\ [][NextTreasury]_vars

\* =================================================================
\* Properties
\* =================================================================
DistributeSucceeded == last.op = "distribute" /\ last.err = "ok"

\* the token movements of the last call that leave the Splitter
Outgoing == SelectSeq(xfers, LAMBDA x : x.from = SplitterAddr)
Paid == [i \in 1..Len(Outgoing) |-> Outgoing[i].amount]

\* C1: the amounts a successful distribute(amount) transfers to the
\* recipients, one transfer per recipient in order, sum to amount exactly,
\* and the Splitter keeps nothing of it
C1_PayoutsSumToAmount ==
  DistributeSucceeded =>
    /\ Len(Outgoing) = Len(recipients)
    /\ \A i \in 1..Len(Outgoing) : Outgoing[i].to = recipients[i]
    /\ SumSeq(Paid) = last.amount
    /\ bal[SplitterAddr] = 0

C1_Witness ==
  /\ DistributeSucceeded
  /\ Len(recipients) = 3
  /\ last.amount = 100
  /\ \E i \in 1..2 : Paid[i] * BASIS_POINTS # last.amount * shares[i]

\* C2: every recipient but the last is paid floor(amount * share / 10000),
\* the last is paid amount minus the earlier payouts; with the examples
\* [7000,3000] x100, [3333,3333,3334] x100 and [1,9999] x1
C2_FloorThenRemainder ==
  DistributeSucceeded =>
    LET n == Len(shares)
        a == last.amount
    IN /\ Len(Paid) = n
       /\ \A i \in 1..(n - 1) : Paid[i] = (a * shares[i]) \div 10000
       /\ Paid[n] = a - SumSeq(SubSeq(Paid, 1, n - 1))
       /\ (shares = <<7000, 3000>> /\ a = 100) => Paid = <<70, 30>>
       /\ (shares = <<3333, 3333, 3334>> /\ a = 100) => Paid = <<33, 33, 34>>
       /\ (shares = <<1, 9999>> /\ a = 1) => Paid = <<0, 1>>

C2_Witness ==
  /\ DistributeSucceeded
  /\ shares = <<3333, 3333, 3334>>
  /\ last.amount = 100
  /\ Paid = <<33, 33, 34>>

\* C3: the stored configuration of a deployed Splitter always has as many
\* shares as recipients, at least one, each share in 1..10000, summing to 10000
C3_ConfigValid ==
  deployed =>
    /\ Len(recipients) = Len(shares)
    /\ Len(recipients) >= 1
    /\ \A i \in 1..Len(shares) : shares[i] \in 1..10000
    /\ SumSeq(shares) = 10000

C3_Witness ==
  /\ deployed
  /\ last.op = "updateShares"
  /\ last.err = "ok"
  /\ Len(shares) = 3
  /\ totalDistributed > 0

\* C4: each of the constructor, updateShares and createSplitter, given as
\* many recipients as shares, accepts the share list exactly when it is
\* non-empty, has no zero and sums to 10000; an empty list is rejected as
\* InvalidShareCount, and a rejected non-empty list with an error naming a
\* defect the list has (a zero share, or a sum that is not 10000)
ErrClass(err) ==
  CASE err = "No recipients" -> "InvalidShareCount"
    [] err = "Share cannot be zero" -> "InvalidShareValue"
    [] err \in {"Shares must sum to 10000", "Shares must sum to 10000 (100%)"}
         -> "SharesNotFullyAllocated"
    [] OTHER -> err

Defects(s) ==
  IF s = <<>> THEN {"InvalidShareCount"}
  ELSE (IF \E i \in 1..Len(s) : s[i] = 0 THEN {"InvalidShareValue"} ELSE {})
       \cup (IF SumSeq(s) # 10000 THEN {"SharesNotFullyAllocated"} ELSE {})

C4_ShareValidation ==
  (/\ last.op \in {"constructor", "updateShares", "createSplitter"}
   /\ Len(vIn.recipients) = Len(vIn.shares))
  => IF Defects(vIn.shares) = {} THEN last.err = "ok"
     ELSE ErrClass(last.err) \in Defects(vIn.shares)

C4_Witness ==
  /\ last.op = "createSplitter"
  /\ vIn.shares = <<0, 10000>>
  /\ Len(vIn.recipients) = 2
  /\ last.err = "Share cannot be zero"

\* C5: a form the off-chain validation accepts (every percentage in
\* (0,100], the percentages summing to 100 within 0.01) is, once converted
\* to basis points, accepted by createSplitter; and the shares of every
\* Splitter created are those of a form the off-chain validation accepts
CanonicalForm(shs) ==
  [i \in 1..Len(shs) |->
     [address |-> <<"u1", "u2", "u3">>[i], percentage |-> shs[i] * 10]]

C5_OffchainOnchainAgree ==
  /\ (/\ vOut.op \in {"createSplit", "POST /api/split/create"}
      /\ vOut.valid
      /\ validateRecipients(vIn.recipients).valid
      /\ validatePercentageSum(vIn.recipients))
     => (last.op = "createSplitter" /\ last.err = "ok")
  /\ (last.op = "createSplitter" /\ last.err = "ok")
     => /\ validateRecipients(CanonicalForm(shares)).valid
        /\ validatePercentageSum(CanonicalForm(shares))
        /\ FormShares(CanonicalForm(shares)) = shares

\* C6: distribute on an inactive Splitter fails with "Splitter is not
\* active", emits no event, moves no token and changes no storage
C6_InactiveRejects ==
  [][ (last'.op = "distribute" /\ deployed /\ ~active) =>
        /\ last'.err = "Splitter is not active"
        /\ events' = <<>>
        /\ xfers' = <<>>
        /\ bal' = bal
        /\ UNCHANGED storage ]_vars

C6_Witness ==
  /\ last.op = "distribute"
  /\ last.err = "Splitter is not active"
  /\ last.amount > 0
  /\ bal[last.sender] >= last.amount
  /\ last.fault = -1

\* C7: distribute(0) on an active Splitter fails with "Amount must be
\* greater than 0", emits no event, moves no token and changes no storage
C7_ZeroAmountRejects ==
  [][ (last'.op = "distribute" /\ deployed /\ active /\ last'.amount = 0) =>
        /\ last'.err = "Amount must be greater than 0"
        /\ events' = <<>>
        /\ xfers' = <<>>
        /\ bal' = bal
        /\ UNCHANGED storage ]_vars

C7_Witness ==
  /\ last.op = "distribute"
  /\ last.amount = 0
  /\ last.fault = -1
  /\ last.err = "Amount must be greater than 0"

\* C8: a distribute in which the pull from the caller or the transfer to
\* some recipient does not succeed fails as a whole: every balance, the
\* storage and the event log are as before the call
C8_NoPartialDistribution ==
  [][ (/\ last'.op = "distribute"
       /\ deployed /\ active /\ last'.amount > 0
       /\ \/ last'.fault \in 0..Len(recipients)
          \/ bal[last'.sender] < last'.amount) =>
        /\ last'.err # "ok"
        /\ events' = <<>>
        /\ xfers' = <<>>
        /\ bal' = bal
        /\ UNCHANGED storage ]_vars

C8_Witness ==
  /\ last.op = "distribute"
  /\ last.fault = 2
  /\ Len(recipients) = 3
  /\ last.err = "Transfer to recipient failed"
  /\ bal[last.sender] >= last.amount

\* C9: totalDistributed never decreases, grows by amount on each successful
\* distribute(amount), is changed by nothing else, and so equals the sum of
\* the amounts of the successful distributes
C9_TotalDistributed ==
  [][ /\ totalDistributed' >= totalDistributed
      /\ DistributeSucceeded' => totalDistributed' = totalDistributed + last'.amount
      /\ ~DistributeSucceeded' => totalDistributed' = totalDistributed
      /\ totalDistributed' = sumDistributed' ]_vars

C9_Witness ==
  /\ DistributeSucceeded
  /\ last.amount > 0
  /\ totalDistributed > last.amount

\* C10: updateShares, activate, deactivate and emergencyWithdraw called by
\* another account than the owner fail with "Only owner" and change neither
\* the configuration, the flag, the counter nor any balance; the owner of a
\* deployed Splitter never changes
OwnerGated == {"updateShares", "activate", "deactivate", "emergencyWithdraw"}

C10_OnlyOwner ==
  [][ /\ (last'.op \in OwnerGated /\ last'.sender # owner) =>
           /\ last'.err = "Only owner"
           /\ UNCHANGED <<recipients, shares, active, totalDistributed, bal>>
      /\ deployed => owner' = owner ]_vars

C10_Witness ==
  /\ last.op = "emergencyWithdraw"
  /\ last.sender # owner
  /\ last.err = "Only owner"
  /\ ~active
  /\ bal[SplitterAddr] > 0

\* an argument pair that breaks the configuration invariant
InvalidConfig(r, s) ==
  \/ Len(r) # Len(s)
  \/ Len(s) = 0
  \/ \E i \in 1..Len(s) : s[i] = 0
  \/ SumSeq(s) # 10000

\* C11: updateShares called by the owner with mismatched lengths, an empty
\* list, a zero share or a sum other than 10000 fails (a sum of 9999 as
\* SharesNotFullyAllocated) and leaves recipients and shares as they were
C11_InvalidUpdateRejected ==
  [][ (/\ last'.op = "updateShares"
       /\ last'.sender = owner
       /\ InvalidConfig(vIn.recipients, vIn.shares)) =>
        /\ last'.err # "ok"
        /\ (/\ Len(vIn.recipients) = Len(vIn.shares)
            /\ SumSeq(vIn.shares) = 9999
            /\ \A i \in 1..Len(vIn.shares) : vIn.shares[i] > 0)
           => ErrClass(last'.err) = "SharesNotFullyAllocated"
        /\ recipients' = recipients
        /\ shares' = shares
        /\ GetConfig' = GetConfig ]_vars

C11_Witness ==
  /\ last.op = "updateShares"
  /\ last.sender = owner
  /\ vIn.shares = <<3333, 3333, 3333>>
  /\ Len(vIn.recipients) = 3
  /\ last.err = "Shares must sum to 10000"
  /\ shares = <<7000, 3000>>
  /\ totalDistributed > 0

\* the payouts of distribute(a) under the share list shs
ExpectedPaid(a, shs) ==
  LET fl(i) == (a * shs[i]) \div 10000
      n == Len(shs)
  IN [i \in 1..n |->
        IF i < n THEN fl(i)
        ELSE a - SumSeq([j \in 1..(n - 1) |-> fl(j)])]

\* C12: a successful updateShares makes getConfig return the new recipients
\* and shares, in order, with token, owner, active and totalDistributed as
\* before; a later distribute pays the stored (new) list
C12_UpdateReplaces ==
  [][ /\ (last'.op = "updateShares" /\ last'.err = "ok") =>
           /\ GetConfig' = [recipients |-> vIn.recipients,
                            shares |-> vIn.shares,
                            token |-> token, owner |-> owner,
                            active |-> active]
           /\ Len(recipients') = Len(vIn.recipients)
           /\ totalDistributed' = totalDistributed
      /\ DistributeSucceeded' =>
           /\ Paid' = ExpectedPaid(last'.amount, shares)
           /\ [i \in 1..Len(Outgoing') |-> Outgoing'[i].to] = recipients
           /\ UNCHANGED config ]_vars

C12_Witness ==
  /\ DistributeSucceeded
  /\ last.amount = 2
  /\ vIn.shares = <<1, 9999>>
  /\ shares = vIn.shares
  /\ recipients = <<"u3", "u2">>
  /\ Paid = <<0, 2>>

\* C13: only updateShares changes recipients or shares: distribute,
\* activate, deactivate, emergencyWithdraw, the view functions (and token
\* transfers outside the Splitter) leave both lists as they are
C13_OnlyUpdateSharesWrites ==
  [][ (deployed /\ last'.op # "updateShares") =>
        /\ recipients' = recipients
        /\ shares' = shares
        /\ GetConfig'.recipients = GetConfig.recipients
        /\ GetConfig'.shares = GetConfig.shares ]_vars

C13_Witness ==
  /\ last.op = "emergencyWithdraw"
  /\ last.err = "ok"
  /\ xfers # <<>>
  /\ shares = <<3333, 3333, 3334>>
  /\ totalDistributed > 0

\* C14: a successful distribute emits PaymentReceived(sender, amount) once,
\* first, and then one Distributed event per recipient, in stored order,
\* carrying that recipient's address and the amount transferred to it
C14_EventsPerRecipient ==
  DistributeSucceeded =>
    /\ Len(events) = Len(recipients) + 1
    /\ events[1] = Ev("PaymentReceived", last.sender, last.amount)
    /\ Len(Outgoing) = Len(recipients)
    /\ \A i \in 1..Len(recipients) :
         events[i + 1] = Ev("Distributed", recipients[i], Paid[i])

C14_Witness ==
  /\ DistributeSucceeded
  /\ recipients = <<"u1", "u2", "u3">>
  /\ shares = <<3333, 3333, 3334>>
  /\ last.amount = 2
  /\ Len(events) = 4
  /\ events[2] = Ev("Distributed", "u1", 0)
  /\ events[4] = Ev("Distributed", "u3", 2)

\* what the last call transferred from the Splitter to r
PaidTo(r) ==
  SumSeq([i \in 1..Len(Outgoing) |->
            IF Outgoing[i].to = r THEN Outgoing[i].amount ELSE 0])

\* the part of a that the floors of the proportional shares leave over
Remainder(a, shs) ==
  a - SumSeq([i \in 1..Len(shs) |-> (a * shs[i]) \div 10000])

\* C15: the payouts are a function of the amount and the ordered list only,
\* and the whole rounding remainder goes to the recipient stored last; so
\* the pairs (u1,3334), (u2,3333), (u3,3333) pay u1 34 of 100 when u1 is
\* stored last and 33 when it is stored first
C15_RemainderToLastStored ==
  DistributeSucceeded =>
    LET n == Len(shares)
        a == last.amount
    IN /\ \A i \in 1..n :
            Paid[i] = (a * shares[i]) \div 10000
                      + (IF i = n THEN Remainder(a, shares) ELSE 0)
       /\ (a = 100 /\ shares = <<3333, 3333, 3334>>
             /\ recipients = <<"u2", "u3", "u1">>)
          => (PaidTo("u1") = 34 /\ PaidTo("u2") = 33 /\ PaidTo("u3") = 33)
       /\ (a = 100 /\ shares = <<3334, 3333, 3333>>
             /\ recipients = <<"u1", "u2", "u3">>)
          => (PaidTo("u1") = 33 /\ PaidTo("u2") = 33 /\ PaidTo("u3") = 34)

C15_Witness ==
  /\ DistributeSucceeded
  /\ last.amount = 100
  /\ shares = <<3334, 3333, 3333>>
  /\ recipients = <<"u1", "u2", "u3">>
  /\ PaidTo("u3") = 34

\* C16: the last recipient is paid its floor plus a rounding error between
\* 0 and recipientCount - 1, every other recipient exactly the floor of
\* amount * share / 10000
C16_RoundingErrorBound ==
  DistributeSucceeded =>
    LET n == Len(recipients)
        a == last.amount
        excess == Paid[n] - (a * shares[n]) \div 10000
    IN /\ excess \in 0..(n - 1)
       /\ \A i \in 1..(n - 1) :
            /\ Paid[i] * 10000 <= a * shares[i]
            /\ a * shares[i] < (Paid[i] + 1) * 10000

C16_Witness ==
  /\ DistributeSucceeded
  /\ Len(recipients) = 4
  /\ Paid[4] - (last.amount * shares[4]) \div 10000 = 3

\* C18: a construction (direct or through the factory) with valid arguments
\* leaves a Splitter holding exactly the given recipients and shares, the
\* token, the given owner, active = true and totalDistributed = 0; one with
\* invalid arguments fails and leaves no Splitter
C18_AtomicConstruction ==
  [][ (last'.op \in {"constructor", "createSplitter"}) =>
        IF InvalidConfig(vIn.recipients, vIn.shares)
        THEN /\ last'.err # "ok"
             /\ ~deployed'
             /\ UNCHANGED storage
             /\ UNCHANGED <<allSplitters, userSplitters>>
        ELSE /\ last'.err = "ok"
             /\ deployed'
             /\ recipients' = vIn.recipients
             /\ shares' = vIn.shares
             /\ token' = TokenAddr
             /\ owner' = last'.sender
             /\ active' = TRUE
             /\ totalDistributed' = 0 ]_vars

C18_Witness ==
  /\ last.op = "constructor"
  /\ last.err = "ok"
  /\ deployed
  /\ last.sender = "u2"
  /\ owner = "u2"
  /\ recipients = <<"u1", "u2", "u3">>
  /\ shares = <<3333, 3333, 3334>>
  /\ active

\* the step is an emergencyWithdraw called by the owner
OwnerWithdraws == last'.op = "emergencyWithdraw" /\ last'.sender = owner

\* the step moves the Splitter's whole balance to the owner and nothing else
WholeBalanceToOwner ==
  /\ last'.err = "ok"
  /\ bal' = Move(bal, SplitterAddr, owner, bal[SplitterAddr])
  /\ bal'[SplitterAddr] = 0
  /\ UNCHANGED <<recipients, shares, active, totalDistributed>>

\* the step fails with 'Must deactivate first' and moves nothing
MustDeactivateFirst ==
  /\ last'.err = "Must deactivate first"
  /\ UNCHANGED <<bal, storage>>

\* C20 as stated: emergencyWithdraw succeeds only while inactive; by the
\* owner while active it fails with 'Must deactivate first' and moves no
\* funds; by the owner while inactive it transfers the whole balance to the
\* owner and leaves recipients, shares, active, totalDistributed unchanged
C20_WithdrawOnlyInactive ==
  [][ /\ (last'.op = "emergencyWithdraw" /\ last'.err = "ok") => ~active
      /\ OwnerWithdraws =>
           IF active THEN MustDeactivateFirst ELSE WholeBalanceToOwner ]_vars

\* C20, amended: as above, except that a call by the owner while inactive
\* whose token transfer returns false or reverts fails as a whole and moves
\* nothing
C20_WithdrawUnlessTokenRefuses ==
  [][ /\ (last'.op = "emergencyWithdraw" /\ last'.err = "ok") => ~active
      /\ OwnerWithdraws =>
           IF active THEN MustDeactivateFirst
           ELSE IF last'.fault = 0 /\ bal[SplitterAddr] > 0
             THEN /\ last'.err \in {"Emergency withdrawal failed",
                                    "token reverted"}
                  /\ UNCHANGED <<bal, storage>>
             ELSE WholeBalanceToOwner ]_vars

C20_Witness ==
  /\ last.op = "emergencyWithdraw"
  /\ last.sender = owner
  /\ last.err = "ok"
  /\ ~active
  /\ xfers = <<Xfer(SplitterAddr, owner, 2)>>
  /\ bal[SplitterAddr] = 0
  /\ totalDistributed > 0

\* C17: at most one distribute is in progress, the configuration does not
\* change while one is (no second distribute, no updateShares, re-entry from
\* the token included), and a finished distribute has paid the recipients of
\* the configuration it began with, each its payout under that configuration
C17_OneDistributionInFlight ==
  /\ Len(frames) <= 1
  /\ \A k \in 1..Len(frames) :
       frames[k].snap = [recipients |-> recipients, shares |-> shares]
  /\ (DistributeSucceeded /\ vOut # Idle) =>
       /\ [i \in 1..Len(Outgoing) |-> Outgoing[i].to] = vOut.snap.recipients
       /\ Paid = ExpectedPaid(last.amount, vOut.snap.shares)

\* the shares of the stored split document
StoredShares ==
  [i \in 1..Len(dbSplit.recipients) |-> dbSplit.recipients[i].share]

\* C19: PUT /api/split/:address replaces the stored recipient list only by
\* one whose converted shares are each in 1..10000 and sum to 10000; a
\* request whose list violates that leaves the stored document untouched
C19_ApiUpdateRevalidates ==
  dbSplit # NoSplit =>
    /\ \A i \in 1..Len(StoredShares) : StoredShares[i] \in 1..10000
    /\ SumSeq(StoredShares) = 10000
    /\ (/\ vOut.op = "PUT /api/split/:address"
        /\ \/ SumSeq(FormShares(vIn.recipients)) # 10000
           \/ \E i \in 1..Len(vIn.recipients) :
                FormShares(vIn.recipients)[i] \notin 1..10000)
       => dbSplit = StoredSplit

\* the calls of runDistributionCycle that are past the isRunning test and
\* not yet through finally
InProgress == {c \in 1..Len(cycles) : cycles[c].pc \in {"fetch", "loop"}}

\* in this step cycle c has processed one split
Processes(c) ==
  /\ Len(cycles') = Len(cycles)
  /\ cycles[c].pc = "loop"
  /\ cycles'[c].k = cycles[c].k + 1

\* C21: when the auto-distribution finds the Splitter holding B, at or above
\* the threshold, and distribute(B) succeeds, the B tokens the Splitter held
\* have been paid to the recipients: its balance is lower by B afterwards
C21_AutoDistributePaysHeldFunds ==
  [][ \A c \in 1..Len(cycles) :
        (Processes(c) /\ cycles'[c].result = "ok") =>
          /\ last'.amount = bal[SplitterAddr]
          /\ bal'[SplitterAddr] = bal[SplitterAddr] - last'.amount ]_vars

\* C22: at most one cycle is in progress; isRunning is true exactly while
\* one is, also after a cycle that threw; a runDistributionCycle called
\* while one is in progress returns at once and processes no split
C22_OneCycleAtATime ==
  [][ /\ Cardinality(InProgress') <= 1
      /\ isRunning' = (InProgress' # {})
      /\ \A c \in 1..Len(cycles') :
           cycles'[c].pc = "skipped" =>
             cycles'[c].processed = <<>> /\ cycles'[c].eligible = <<>>
      /\ Len(cycles') = Len(cycles) + 1 =>
           /\ cycles'[Len(cycles')].pc =
                (IF InProgress # {} THEN "skipped" ELSE "fetch")
           /\ UNCHANGED <<chain, splitDocs>> ]_vars

C22_Witness ==
  /\ Len(cycles) = 3
  /\ cycles[1].pc = "threw"
  /\ cycles[2].pc = "loop"
  /\ cycles[2].processed # <<>>
  /\ cycles[3].pc = "skipped"
  /\ isRunning

Deactivated(apiKey) ==
  \E u \in Users : \E i \in 1..Len(apiUsers[u]) :
     apiUsers[u][i].keyHash = Hash(apiKey) /\ ~apiUsers[u][i].isActive

C24_DeactivatedKeyRejected ==
  (vOut.op = "verifyApiKey" /\ Deactivated(vIn.apiKey))
     => (vOut.status = 403 /\ vOut.error = "Invalid API key")

\* -----------------------------------------------------------------
\* C25: authenticateWallet accepts a signed message only while its
\* timestamp is within 5 minutes of the server's clock, and a message it
\* has accepted once is rejected when it is presented again.
C25_FreshAndOnce ==
  (vOut.op = "authenticateWallet" /\ vOut.status = 200)
     => /\ Abs(vOut.at - vIn.body.message.timestamp) <= MaxAge
        /\ ~vOut.replay

\* -----------------------------------------------------------------
\* C26: per IP the rate limiter admits at most max requests in any window
\* of windowMs; a request that arrives when max requests of its IP were
\* admitted in the preceding windowMs is answered 429 and not passed on,
\* rejected requests do not count, and the IP is admitted again as soon as
\* fewer than max admitted requests remain inside the window.
\* the requests of ip admitted among the first n served, in (t - windowMs, t]
AdmittedIn(n, ip, t) ==
  { j \in 1..n : /\ served[j].ip = ip
                 /\ served[j].status = 200
                 /\ served[j].at > t - windowMs
                 /\ served[j].at <= t }

C26_SlidingWindow ==
  /\ \A ip \in IPs : \A t \in Epoch..(Epoch + MaxClock) :
        Cardinality(AdmittedIn(Len(served), ip, t)) <= max
  /\ \A i \in 1..Len(served) :
        served[i].status =
          IF Cardinality(AdmittedIn(i - 1, served[i].ip, served[i].at)) >= max
          THEN 429 ELSE 200

\* an IP was admitted max times, then rejected, and later admitted again
C26_Witness ==
  /\ Len(served) = 4
  /\ \A i \in 1..4 : served[i].ip = "ip1"
  /\ served[1].status = 200 /\ served[2].status = 200
  /\ served[3].status = 429 /\ served[4].status = 200
  /\ served[4].at = served[1].at + windowMs

\* -----------------------------------------------------------------
\* C27: every payment attempt through POST /api/payment/process that fails
\* during processing, after validation passed, is saved as a Payment
\* record with status 'failed' and the error message; a successful attempt
\* is saved as exactly one record with status 'completed'.
C27_AttemptsRecorded ==
  vOut.op = "processPayment" =>
    /\ vOut.status = 500 =>
         /\ Len(payments) = vOut.before + 1
         /\ payments[Len(payments)].status = "failed"
         /\ payments[Len(payments)].error = Some(vOut.error)
         /\ payments[Len(payments)].contractAddress = Some(vIn.body.splitAddress)
    /\ vOut.status = 200 =>
         /\ Len(payments) = vOut.before + 1
         /\ payments[Len(payments)].status = "completed"
         /\ payments[Len(payments)].txHash = vOut.txHash

\* -----------------------------------------------------------------
\* C28: the registry of SplitFactory is consistent: allSplitters holds
\* exactly the Splitters created by successful createSplitter calls, in
\* creation order and without duplicates; each of them is in exactly one
\* userSplitters list, that of the caller who created it, and that caller is
\* the Splitter's owner; a createSplitter call that fails leaves both lists
\* unchanged.
ByFactory == SelectSeq(splitters, LAMBDA sp : sp.by = "factory")

Listings(a) ==
  { <<u, j>> \in Users \X (1..MaxSplitters) :
      j <= Len(userSplitters[u]) /\ userSplitters[u][j] = a }

RegistryConsistent ==
  /\ allSplitters = [i \in 1..Len(ByFactory) |-> ByFactory[i].address]
  /\ \A i, j \in 1..Len(allSplitters) :
        allSplitters[i] = allSplitters[j] => i = j
  /\ \A i \in 1..Len(ByFactory) :
        /\ Cardinality(Listings(ByFactory[i].address)) = 1
        /\ \E j \in 1..Len(userSplitters[ByFactory[i].owner]) :
              userSplitters[ByFactory[i].owner][j] = ByFactory[i].address
  /\ \A u \in Users : \A j \in 1..Len(userSplitters[u]) :
        \E i \in 1..Len(allSplitters) : allSplitters[i] = userSplitters[u][j]

C28_RegistryConsistent ==
  /\ []RegistryConsistent
  /\ [][ (last'.op = "createSplitter" /\ last'.err # "ok")
            => UNCHANGED <<allSplitters, userSplitters, splitters>> ]_vars

\* two callers have created a Splitter each, a Splitter was deployed outside
\* the factory, and the last createSplitter call failed
C28_Witness ==
  /\ Len(allSplitters) = 2
  /\ Len(splitters) = 3
  /\ Len(userSplitters["u1"]) = 1
  /\ Len(userSplitters["u3"]) = 1
  /\ last.op = "createSplitter"
  /\ last.err = "Share cannot be zero"

\* -----------------------------------------------------------------
\* C29: the balance the Treasury records for a token never exceeds the
\* amount of that token it holds, after any sequence of deposit, withdraw
\* and batchDistribute calls, including calls in which the token's transfer
\* or transferFrom returns false; and withdraw and batchDistribute never pay
\* out more than the recorded balance.
TreasuryPaid ==
  SumSeq([i \in 1..Len(xfers) |->
            IF xfers[i].from = TreasuryAddr THEN xfers[i].amount ELSE 0])

C29_RecordedBalanceBacked ==
  /\ \A t \in Tokens : balances[t] <= bal[TreasuryAddr]
  /\ (last.op \in {"withdraw", "batchDistribute"} /\ last.err = "ok")
        => \A t \in Tokens : TreasuryPaid <= balances[t] + last.amount

====
